---- MODULE Spec2Model ----
(***************************************************************************)
(* Model of ugrd: the hook pipeline and init assembler of                  *)
(* InitramfsGenerator (src/ugrd/initramfs_generator.py) and the unlock     *)
(* script that ugrd.crypto.cryptsetup generates                            *)
(* (src/src/ugrd/crypto/cryptsetup.py).                                    *)
(***************************************************************************)
EXTENDS Integers, Sequences, FiniteSets, TLC

\* ------------------------------------------------------------------ bounds
\* longest list a contributed function returns
MaxLines == 2
\* hook bindings drawn freely in one configuration
MaxRegs == 2

\* ------------------------------------------------------- python values
\* A Python value that is None, a str (one line) or a list of lines.
None == [type |-> "none", val |-> <<>>]
Str(line) == [type |-> "str", val |-> <<line>>]
List(lines) == [type |-> "list", val |-> lines]
\* Python truthiness of such a value: None and the empty list are false.
Truthy(v) == v.type # "none" /\ v.val # <<>>

\* One line of generated shell text.
Item(kind, name, n) == [kind |-> kind, name |-> name, n |-> n]
\* The k-th line of what function f returns.
Line(f, k) == Item("line", f, k)
\* The call of the shell function registered under name f.
Call(f) == Item("call", f, 0)

\* ------------------------------------------------------ configuration
init_types ==
    <<"init_debug", "init_early", "init_main", "init_late",
      "init_premount", "init_mount", "init_cleanup">>

\* Methods of the generator that are bound to a hook through an attribute.
InternalFunctions == {"internal_hook"}
\* Functions modules contribute through config_dict['imports'].
ExternalFunctions == {"mount_root", "btrfs"}
\* The functions the base module binds to init_pre and init_final.
PreFunction == "mount_base"
FinalFunction == "do_switch_root"
Functions ==
    InternalFunctions \cup ExternalFunctions
        \cup {PreFunction, FinalFunction, "generate_structure"}

\* config_dict['binaries']
Binaries == {"cryptsetup", "btrfs"}

Hooks ==
    {"build_pre", "build_tasks", "functions", "init_pre", "init_final"}
        \cup {init_types[i] : i \in 1..Len(init_types)}
\* The hooks the free bindings of a configuration go to.
BoundHooks == {"functions", "init_main", "init_mount"}

\* What a function may return, by kind: kind -2 is None, kind -1 a line (str),
\* kind n >= 0 a list of n lines.
ReturnKinds == (0 - 2)..MaxLines
ReturnValue(f, kind) ==
    IF kind = 0 - 2 THEN None
    ELSE IF kind = 0 - 1 THEN Str(Line(f, 1))
    ELSE List([k \in 1..kind |-> Line(f, k)])

\* Sequences over S of length at most n.
SeqsUpTo(S, n) == UNION {[1..k -> S] : k \in 0..n}

\* The external functions bound to hook h by the registrations regs, in
\* registration order.
BoundTo(regs, h, names) ==
    LET sel == SelectSeq(regs, LAMBDA r : r[1] = h /\ r[2] \in names)
    IN  [i \in 1..Len(sel) |-> sel[i][2]]

\* The configurations: the base bindings of init_pre and init_final, up to
\* MaxRegs further bindings, what each bound function returns, the masks
\* and whether a module supplies custom_init.
Configs ==
    {[imports |-> [h \in Hooks |->
                    IF h = "init_pre" THEN <<PreFunction>>
                    ELSE IF h = "init_final" THEN <<FinalFunction>>
                    ELSE BoundTo(regs, h, ExternalFunctions)],
      attrs |-> [h \in Hooks |->
                    IF h = "build_pre" THEN <<"generate_structure">>
                    ELSE BoundTo(regs, h, InternalFunctions)],
      masks |-> masks,
      has_custom_init |-> custom] :
        regs \in SeqsUpTo(BoundHooks \X (InternalFunctions \cup ExternalFunctions), MaxRegs),
        masks \in {[h \in Hooks |-> {}],
                   [h \in Hooks |-> IF h = "init_mount" THEN {"mount_root"} ELSE {}]},
        custom \in BOOLEAN}

\* The functions a configuration binds to an init hook.
BoundFunctions(cfg) ==
    {f \in Functions : \E h \in Hooks \ {"build_pre", "build_tasks"} :
        \E i \in 1..Len(cfg.imports[h] \o cfg.attrs[h]) :
            (cfg.imports[h] \o cfg.attrs[h])[i] = f}

\* What the functions of a configuration return; a function that is bound
\* to no init hook returns None, and the base functions return a line or
\* nothing.
ReturnMaps(cfg) ==
    LET bound == BoundFunctions(cfg)
    IN  {[f \in Functions |->
            IF f \in bound THEN ReturnValue(f, kinds[f]) ELSE None] :
         kinds \in {k \in [bound -> ReturnKinds] :
            \A f \in bound \cap {PreFunction, FinalFunction} : k[f] < 0}}

\* ------------------------------------------------------ hook pipeline
NoError == "none"

\* function.__name__ in self.included_functions
Included(included, name) ==
    \E i \in 1..Len(included) : included[i].name = name

\* InitramfsConfigDict.verify_mask: a function masked for a hook is taken
\* out of that hook's imports, and out of no other hook's.
verify_mask(imports, masks) ==
    [h \in DOMAIN imports |->
        SelectSeq(imports[h], LAMBDA f : f \notin masks[h])]

\* __init__ without the call of verify_mask.
Construct_no_verify_mask(cfg, returns) ==
    [imports |-> cfg.imports,
     attrs |-> cfg.attrs,
     returns |-> returns,
     binaries |-> Binaries,
     has_custom_init |-> cfg.has_custom_init]

\* InitramfsGenerator.__init__: the generator after load_config,
\* verify_deps, verify_mask and import_args.
Construct(cfg, returns) ==
    [imports |-> verify_mask(cfg.imports, cfg.masks),
     attrs |-> cfg.attrs,
     returns |-> returns,
     binaries |-> Binaries,
     has_custom_init |-> cfg.has_custom_init]

\* _run_func registering every output, a single line too.
_run_func_always_include(gen, included, function, external, force_include) ==
    LET raw == gen.returns[function]
        function_output ==
            IF raw.type = "list" /\ Len(raw.val) = 1 THEN Str(raw.val[1]) ELSE raw
    IN  IF ~Truthy(raw)
        THEN [ret |-> None, included |-> included, err |-> NoError]
        ELSE IF Included(included, function)
        THEN [ret |-> None, included |-> included, err |-> "ValueError: already included"]
        ELSE IF function \in gen.binaries
        THEN [ret |-> None, included |-> included, err |-> "ValueError: collides with binary"]
        ELSE [ret |-> Str(Call(function)),
              included |-> Append(included, [name |-> function, body |-> function_output]),
              err |-> NoError]

\* _run_func without the check of included_functions.
_run_func_no_duplicate_check(gen, included, function, external, force_include) ==
    LET raw == gen.returns[function]
        function_output ==
            IF raw.type = "list" /\ Len(raw.val) = 1 THEN Str(raw.val[1]) ELSE raw
    IN  IF ~Truthy(raw)
        THEN [ret |-> None, included |-> included, err |-> NoError]
        ELSE IF function \in gen.binaries
        THEN [ret |-> None, included |-> included, err |-> "ValueError: collides with binary"]
        ELSE IF function_output.type = "str" /\ ~force_include
        THEN [ret |-> function_output, included |-> included, err |-> NoError]
        ELSE [ret |-> Str(Call(function)),
              included |-> Append(included, [name |-> function, body |-> function_output]),
              err |-> NoError]

\* _run_func without the check of the binaries.
_run_func_no_binary_check(gen, included, function, external, force_include) ==
    LET raw == gen.returns[function]
        function_output ==
            IF raw.type = "list" /\ Len(raw.val) = 1 THEN Str(raw.val[1]) ELSE raw
    IN  IF ~Truthy(raw)
        THEN [ret |-> None, included |-> included, err |-> NoError]
        ELSE IF Included(included, function)
        THEN [ret |-> None, included |-> included, err |-> "ValueError: already included"]
        ELSE IF function_output.type = "str" /\ ~force_include
        THEN [ret |-> function_output, included |-> included, err |-> NoError]
        ELSE [ret |-> Str(Call(function)),
              included |-> Append(included, [name |-> function, body |-> function_output]),
              err |-> NoError]

\* _run_func: [ret, included, err], ret being what the hook position gets.
_run_func(gen, included, function, external, force_include) ==
    LET raw == gen.returns[function]
        function_output ==
            IF raw.type = "list" /\ Len(raw.val) = 1 THEN Str(raw.val[1]) ELSE raw
    IN  IF ~Truthy(raw)
        THEN [ret |-> None, included |-> included, err |-> NoError]
        ELSE IF Included(included, function)
        THEN [ret |-> None, included |-> included, err |-> "ValueError: already included"]
        ELSE IF function \in gen.binaries
        THEN [ret |-> None, included |-> included, err |-> "ValueError: collides with binary"]
        ELSE IF function_output.type = "str" /\ ~force_include
        THEN [ret |-> function_output, included |-> included, err |-> NoError]
        ELSE [ret |-> Str(Call(function)),
              included |-> Append(included, [name |-> function, body |-> function_output]),
              err |-> NoError]

\* The one element of a singleton set: The({f(x) : x \in {e}}) is f(e) with
\* e evaluated once.
The(S) == CHOOSE x \in S : TRUE

\* _run_funcs: [out, included, err]; an exception ends the loop.
RECURSIVE _run_funcs(_, _, _, _, _)
_run_funcs(gen, included, functions, external, force_include) ==
    IF functions = <<>>
    THEN [out |-> <<>>, included |-> included, err |-> NoError]
    ELSE The({
        IF r.err # NoError
        THEN [out |-> <<>>, included |-> r.included, err |-> r.err]
        ELSE The({
            [out |-> (IF Truthy(r.ret) THEN r.ret.val ELSE <<>>) \o rest.out,
             included |-> rest.included,
             err |-> rest.err] :
            rest \in {_run_funcs(gen, r.included, Tail(functions),
                                 external, force_include)}}) :
        r \in {_run_func(gen, included, Head(functions), external, force_include)}})

\* _run_hook running the imported functions before the internal ones.
_run_hook_external_first(gen, included, hook, force_include) ==
    The({
        The({
            [ret |-> IF internal.err = NoError /\ ext.out \o internal.out # <<>>
                     THEN List(ext.out \o internal.out) ELSE None,
             included |-> internal.included,
             err |-> internal.err] :
            internal \in {IF ext.err = NoError
                          THEN _run_funcs(gen, ext.included, gen.attrs[hook],
                                          FALSE, force_include)
                          ELSE [out |-> <<>>, included |-> ext.included,
                                err |-> ext.err]}}) :
        ext \in {_run_funcs(gen, included, gen.imports[hook], TRUE, force_include)}})

\* _run_hook: [ret, included, err]; ret is the list of outputs, or None
\* when there is none. A hook without attribute or import has the empty
\* list here.
_run_hook(gen, included, hook, force_include) ==
    The({
        The({
            [ret |-> IF ext.err = NoError /\ internal.out \o ext.out # <<>>
                     THEN List(internal.out \o ext.out) ELSE None,
             included |-> ext.included,
             err |-> ext.err] :
            ext \in {IF internal.err = NoError /\ gen.imports[hook] # <<>>
                     THEN _run_funcs(gen, internal.included, gen.imports[hook],
                                     TRUE, force_include)
                     ELSE [out |-> <<>>, included |-> internal.included,
                           err |-> internal.err]}}) :
        internal \in {_run_funcs(gen, included, gen.attrs[hook], FALSE, force_include)}})

\* _run_init_hook: the hook's output under its '# Begin' header, or None.
_run_init_hook(gen, included, level) ==
    The({
        [ret |-> IF Truthy(runlevel.ret)
                 THEN List(<<Item("begin", level, 0)>> \o runlevel.ret.val)
                 ELSE None,
         included |-> runlevel.included,
         err |-> runlevel.err] :
        runlevel \in {_run_hook(gen, included, level, FALSE)}})

\* The loop of generate_init_main over the init types types; a level
\* without output adds nothing.
RECURSIVE run_init_types(_, _, _)
run_init_types(gen, included, types) ==
    IF types = <<>>
    THEN [ret |-> List(<<>>), included |-> included, err |-> NoError]
    ELSE The({
        IF runlevel.err # NoError
        THEN [ret |-> None, included |-> runlevel.included, err |-> runlevel.err]
        ELSE The({
            [ret |-> IF rest.err = NoError
                     THEN List(runlevel.ret.val \o rest.ret.val)
                     ELSE None,
             included |-> rest.included,
             err |-> rest.err] :
            rest \in {run_init_types(gen, runlevel.included, Tail(types))}}) :
        runlevel \in {_run_init_hook(gen, included, Head(types))}})

\* generate_init_main: every init type in the order of init_types.
generate_init_main(gen, included) == run_init_types(gen, included, init_types)

\* generate_init_funcs: the lines of init_funcs.sh.
RECURSIVE generate_init_funcs(_)
generate_init_funcs(included) ==
    IF included = <<>>
    THEN <<Item("banner", "init_funcs", 0)>>
    ELSE LET last == included[Len(included)]
         IN  generate_init_funcs(SubSeq(included, 1, Len(included) - 1))
                \o <<Item("def", last.name, 0)>> \o last.body.val
                \o <<Item("enddef", last.name, 0)>>

\* list.insert(index, item)
Insert(list, index, item) ==
    IF index >= Len(list) THEN Append(list, item)
    ELSE SubSeq(list, 1, index) \o <<item>> \o SubSeq(list, index + 1, Len(list))

\* list.extend(value): a TypeError when value is None.
CanExtend(value) == value.type = "list"

\* ------------------------------------------- main.py and generate_init
VARIABLES
    pc,                  \* where main.py is
    config,              \* the configuration as loaded
    gen,                 \* the generator: imports, attributes, binaries
    included_functions,  \* self.included_functions, in insertion order
    init,                \* the local list init of generate_init
    custom_init,         \* the local custom_init of generate_init
    files,               \* what _write has written, by file name
    error,               \* the exception raised, if any
    level,               \* the hook run last
    runlevel,            \* what the hook run last returned
    dumped,              \* whether main.py printed the config dict
    call,                \* the last direct call of _run_func or _run_hook
    ncalls,              \* how many such calls were made
    crypt,               \* the cryptsetup configuration crypt_init reads
    script,              \* the lines crypt_init generated
    sh_pc,               \* the line the shell is at
    sh_status,           \* running, finished, returned or failed (rd_fail)
    sh_test,             \* the shell reached an elif by a failed test
    sh_open,             \* the device-mapper names that exist
    sh_key_data,         \* whether /run/vars/key_data exists
    sh_i,                \* the shell variable i
    sh_crypt_dev,        \* whether $crypt_dev is non-empty
    sh_loop,             \* what happened in the loop being run
    cs_config,           \* the settings the cryptsetup module reads
    cs_host,             \* what the build host shows: dm, blkid, LUKS header
    cryptsetup,          \* self["cryptsetup"], in insertion order
    cryptsetup_key_types, \* self["cryptsetup_key_types"]
    exports,             \* self["exports"]
    cs_call,             \* the last call into the module and its outcome
    cs_calls             \* how many such calls were made

genVars ==
    <<pc, config, gen, included_functions, init, custom_init, files, error,
      level, runlevel, dumped>>
funcVars == <<call, ncalls>>
shVars ==
    <<crypt, script, sh_pc, sh_status, sh_test, sh_open, sh_key_data, sh_i,
      sh_crypt_dev, sh_loop>>
csVars ==
    <<cs_config, cs_host, cryptsetup, cryptsetup_key_types, exports, cs_call,
      cs_calls>>

\* A local name that has not been assigned.
Unbound == [type |-> "unbound", val |-> <<>>]

FileNames == {"init", "init_funcs.sh", "_custom_init_file"}

Shebang == Item("shebang", "init", 0)
Banner == Item("banner", "init", 0)
SourceFuncs == Item("source", "init_funcs.sh", 0)
EndInit == Item("end", "init", 0)
CustomMarker == Item("custom_marker", "custom_init", 0)
\* What the custom_init import returns: the line for init and the lines of
\* the custom init file.
CustomInitLine == Item("line", "custom_init", 0)
CustomInitFile ==
    <<Item("shebang", "custom_init", 0), Item("banner", "custom_init", 0),
      Item("line", "custom_init", 1)>>

GenInit ==
    /\ \E cfg \in Configs : \E returns \in ReturnMaps(cfg) :
        /\ config = cfg
        /\ gen = Construct(cfg, returns)
    /\ pc = "constructed"
    /\ included_functions = <<>>
    /\ init = <<>>
    /\ custom_init = Unbound
    /\ files = [n \in FileNames |-> None]
    /\ error = NoError
    /\ level = "none"
    /\ runlevel = None
    /\ dumped = FALSE

\* No direct call was made.
NoCall ==
    [kind |-> "none", function |-> "none", output |-> None,
     force_include |-> FALSE, before |-> <<>>, ret |-> None, err |-> NoError]

FuncIdle ==
    /\ call = NoCall
    /\ ncalls = 0

ShIdle ==
    /\ crypt = <<>>
    /\ script = <<>>
    /\ sh_pc = 0
    /\ sh_status = "idle"
    /\ sh_test = FALSE
    /\ sh_open = {}
    /\ sh_key_data = FALSE
    /\ sh_i = 0
    /\ sh_crypt_dev = FALSE
    /\ sh_loop = <<>>

\* The cryptsetup module was not loaded.
CsIdle ==
    /\ cs_config = <<>>
    /\ cs_host = <<>>
    /\ cryptsetup = <<>>
    /\ cryptsetup_key_types = <<>>
    /\ exports = <<>>
    /\ cs_call = <<>>
    /\ cs_calls = 0

\* An exception leaves the locals as they are and reaches main.py's handler.
Raise(err) ==
    /\ pc' = "raised"
    /\ error' = err

\* main.py: generator.build_structure()
BuildStructure ==
    /\ pc = "constructed"
    /\ \E pre \in {_run_hook(gen, included_functions, "build_pre", FALSE)} :
        IF pre.err # NoError
        THEN /\ included_functions' = pre.included
             /\ level' = "build_pre"
             /\ runlevel' = pre.ret
             /\ Raise(pre.err)
        ELSE \E tasks \in {_run_hook(gen, pre.included, "build_tasks", FALSE)} :
             /\ included_functions' = tasks.included
             /\ level' = "build_tasks"
             /\ runlevel' = tasks.ret
             /\ IF tasks.err # NoError THEN Raise(tasks.err)
                ELSE pc' = "built" /\ error' = error
    /\ UNCHANGED <<config, gen, init, custom_init, files, dumped>>
    /\ UNCHANGED <<funcVars, shVars, csVars>>

\* generate_init, to the 'functions' hook.
GenerateInitBegin ==
    /\ pc = "built"
    /\ init' = <<Shebang, Banner>>
    /\ \E r \in {_run_hook(gen, included_functions, "functions", TRUE)} :
           /\ included_functions' = r.included
           /\ level' = "functions"
           /\ runlevel' = r.ret
           /\ IF r.err # NoError THEN Raise(r.err)
              ELSE pc' = "init_pre" /\ error' = error
    /\ UNCHANGED <<config, gen, custom_init, files, dumped>>
    /\ UNCHANGED <<funcVars, shVars, csVars>>

\* init.extend(self._run_init_hook(hook)), then the lines after
InitHookStep(hook, after, next) ==
    \E r \in {_run_init_hook(gen, included_functions, hook)} :
        /\ included_functions' = r.included
        /\ level' = hook
        /\ runlevel' = r.ret
        /\ IF r.err # NoError THEN Raise(r.err) /\ init' = init
           ELSE IF ~CanExtend(r.ret)
           THEN Raise("TypeError: 'NoneType' object is not iterable") /\ init' = init
           ELSE /\ init' = init \o r.ret.val \o after
                /\ pc' = next
                /\ error' = error

\* init.extend(self._run_init_hook('init_pre'))
RunInitPre ==
    /\ pc = "init_pre"
    /\ InitHookStep("init_pre", <<>>, "main")
    /\ UNCHANGED <<config, gen, custom_init, files, dumped>>
    /\ UNCHANGED <<funcVars, shVars, csVars>>

\* the custom_init branch of generate_init
CustomInit ==
    /\ pc = "main"
    /\ gen.has_custom_init
    /\ init' = init \o <<CustomMarker, CustomInitLine>>
    /\ custom_init' = List(CustomInitFile)
    /\ level' = "custom_init"
    /\ runlevel' = List(<<CustomInitLine>>)
    /\ pc' = "init_final"
    /\ UNCHANGED <<config, gen, included_functions, files, error, dumped>>
    /\ UNCHANGED <<funcVars, shVars, csVars>>

\* init.extend(self.generate_init_main())
GenerateInitMain ==
    /\ pc = "main"
    /\ ~gen.has_custom_init
    /\ \E r \in {generate_init_main(gen, included_functions)} :
           /\ included_functions' = r.included
           /\ level' = "generate_init_main"
           /\ runlevel' = r.ret
           /\ IF r.err # NoError THEN Raise(r.err) /\ init' = init
              ELSE /\ init' = init \o r.ret.val
                   /\ pc' = "init_final"
                   /\ error' = error
    /\ UNCHANGED <<config, gen, custom_init, files, dumped>>
    /\ UNCHANGED <<funcVars, shVars, csVars>>

\* init.extend(self._run_init_hook('init_final')) and the end marker
RunInitFinal ==
    /\ pc = "init_final"
    /\ InitHookStep("init_final", <<EndInit>>, "write")
    /\ UNCHANGED <<config, gen, custom_init, files, dumped>>
    /\ UNCHANGED <<funcVars, shVars, csVars>>

\* the end of generate_init: init_funcs.sh, the custom init file and init
WriteInit ==
    /\ pc = "write"
    /\ LET has_funcs == included_functions # <<>>
           files1 == IF has_funcs
                     THEN [files EXCEPT !["init_funcs.sh"] =
                              List(generate_init_funcs(included_functions))]
                     ELSE files
           init1 == IF has_funcs THEN Insert(init, 2, SourceFuncs) ELSE init
       IN  IF custom_init = Unbound
           THEN \* 'if custom_init:' reads a local that was never assigned
                /\ Raise("UnboundLocalError: custom_init")
                /\ files' = files1
                /\ init' = init1
                /\ custom_init' = custom_init
           ELSE LET custom1 == IF has_funcs /\ Truthy(custom_init)
                               THEN List(Insert(custom_init.val, 2, SourceFuncs))
                               ELSE custom_init
                IN  /\ custom_init' = custom1
                    /\ init' = init1
                    /\ files' = [files1 EXCEPT
                            !["_custom_init_file"] =
                                IF Truthy(custom1) THEN custom1 ELSE @,
                            !["init"] = List(init1)]
                    /\ pc' = "done"
                    /\ error' = error
    /\ UNCHANGED <<config, gen, included_functions, level, runlevel, dumped>>
    /\ UNCHANGED <<funcVars, shVars, csVars>>

\* main.py: except Exception: log the error, print generator.config_dict
MainExcept ==
    /\ pc = "raised"
    /\ pc' = "exit"
    /\ dumped' = TRUE
    /\ UNCHANGED <<config, gen, included_functions, init, custom_init, files,
                   error, level, runlevel>>
    /\ UNCHANGED <<funcVars, shVars, csVars>>

GenNext ==
    \/ BuildStructure
    \/ GenerateInitBegin
    \/ RunInitPre
    \/ CustomInit
    \/ GenerateInitMain
    \/ RunInitFinal
    \/ WriteInit
    \/ MainExcept

vars == <<genVars, funcVars, shVars, csVars>>

\* main.py on every configuration.
Init == GenInit /\ FuncIdle /\ ShIdle /\ CsIdle
Next == GenNext
Spec == Init /\ [][Next]_vars

\* ---------------------------------------------- properties: generator
\* The place of an init type in init_types.
PhaseIndex(level_name) ==
    CHOOSE i \in 1..Len(init_types) : init_types[i] = level_name

\* The '# Begin' line that governs line i of out: the last one at or before i.
HeaderOf(out, i) ==
    CHOOSE j \in 1..i :
        /\ out[j].kind = "begin"
        /\ \A k \in (j + 1)..i : out[k].kind # "begin"

\* The functions whose output stands under the header of phase, in order.
PhaseNames(out, phase) ==
    LET at == SelectSeq([i \in 1..Len(out) |-> i],
                        LAMBDA i : /\ out[i].kind # "begin"
                                   /\ out[HeaderOf(out, i)].name = phase)
    IN  [k \in 1..Len(at) |-> out[at[k]].name]

RECURSIVE IsSubseq(_, _)
IsSubseq(s, t) ==
    IF s = <<>> THEN TRUE
    ELSE IF t = <<>> THEN FALSE
    ELSE IF Head(s) = Head(t) THEN IsSubseq(Tail(s), Tail(t))
    ELSE IsSubseq(s, Tail(t))

Occurs(seq, x) == \E i \in 1..Len(seq) : seq[i] = x

\* generate_init_main has returned.
MainReturned == level = "generate_init_main" /\ error = NoError

\* An exception raised by _run_func for a function's name.
FunctionRaised ==
    error \in {"ValueError: already included", "ValueError: collides with binary"}

C3_EmptyPhaseSkipped ==
    (level \in {"init_pre", "init_final"} /\ ~Truthy(runlevel) /\ ~FunctionRaised)
        => /\ error = NoError
           /\ ~Occurs(init, Item("begin", level, 0))

\* generate_init extended init by None: the case of C3.
EmptyPhaseRaised == error = "TypeError: 'NoneType' object is not iterable"

\* C4: unless a function's name raised (and C3's case set aside),
\* generate_init ends having written init: the shebang, the banner, the source line exactly when a function
\* was registered (then in the custom init file too), the phases' output and
\* the end marker last.
C4_InitWritten ==
    (pc \in {"done", "raised", "exit"} /\ ~FunctionRaised /\ ~EmptyPhaseRaised)
        => /\ pc = "done"
           /\ files["init"].type = "list"
           /\ LET text == files["init"].val
              IN  /\ Len(text) >= 3
                  /\ text[1] = Shebang
                  /\ text[2] = Banner
                  /\ (text[3] = SourceFuncs) <=> (included_functions # <<>>)
                  /\ text[Len(text)] = EndInit
                  /\ gen.has_custom_init =>
                        /\ files["_custom_init_file"].type = "list"
                        /\ (files["_custom_init_file"].val[3] = SourceFuncs)
                                <=> (included_functions # <<>>)

\* mount_root is masked for init_mount.
MountRootMasked == "mount_root" \in config.masks["init_mount"]

\* C5: with mount_root masked for init_mount, what generate_init_main
\* returns has neither a line nor the name of mount_root under
\* '# Begin init_mount', mount_root is not registered by a run for init_mount,
\* and under every other phase it is bound to, its output stands.
C5_MaskedAbsent ==
    (MainReturned /\ MountRootMasked) =>
        /\ ~Occurs(PhaseNames(runlevel.val, "init_mount"), "mount_root")
        /\ (\A h \in Hooks \ {"init_mount"} : ~Occurs(config.imports[h], "mount_root"))
                => ~Included(included_functions, "mount_root")
        /\ \A p \in 1..Len(init_types) :
            (/\ init_types[p] # "init_mount"
             /\ Occurs(config.imports[init_types[p]], "mount_root")
             /\ Truthy(gen.returns["mount_root"]))
                => Occurs(PhaseNames(runlevel.val, init_types[p]), "mount_root")

\* C5 witness: mount_root, bound to init_mount and init_main and masked for
\* init_mount, has its output under init_main.
C5_Witness ==
    /\ MainReturned
    /\ MountRootMasked
    /\ Occurs(config.imports["init_mount"], "mount_root")
    /\ Occurs(PhaseNames(runlevel.val, "init_main"), "mount_root")

\* ------------------------------------- direct calls of the hook pipeline
\* direct calls made in one run
MaxCalls == 3

\* The generator of a configuration that binds nothing but the base
\* functions, no function returning anything yet.
BareGenerator ==
    Construct([imports |-> [h \in Hooks |->
                             IF h = "init_pre" THEN <<PreFunction>>
                             ELSE IF h = "init_final" THEN <<FinalFunction>>
                             ELSE <<>>],
               attrs |-> [h \in Hooks |->
                             IF h = "build_pre" THEN <<"generate_structure">> ELSE <<>>],
               masks |-> [h \in Hooks |-> {}],
               has_custom_init |-> FALSE],
              [f \in Functions |-> None])

\* The generator as constructed, nothing built or generated yet.
GenIdle ==
    /\ pc = "constructed"
    /\ config = <<>>
    /\ gen = BareGenerator
    /\ included_functions = <<>>
    /\ init = <<>>
    /\ custom_init = Unbound
    /\ files = [n \in FileNames |-> None]
    /\ error = NoError
    /\ level = "none"
    /\ runlevel = None
    /\ dumped = FALSE

FuncInit ==
    /\ GenIdle
    /\ FuncIdle
    /\ ShIdle
    /\ CsIdle

\* self._run_func(function, external, force_include), function returning
\* the value of kind kind; the caller catches what it raises.
RunFunc(function, kind, force_include) ==
    /\ ncalls < MaxCalls
    /\ \E r \in {_run_func([gen EXCEPT !.returns[function] = ReturnValue(function, kind)],
                           included_functions, function,
                           function \in ExternalFunctions, force_include)} :
        /\ included_functions' = r.included
        /\ call' = [kind |-> "func", function |-> function,
                    output |-> ReturnValue(function, kind),
                    force_include |-> force_include,
                    before |-> included_functions, ret |-> r.ret, err |-> r.err]
    /\ ncalls' = ncalls + 1
    /\ UNCHANGED <<pc, config, gen, init, custom_init, files, error, level,
                   runlevel, dumped, shVars, csVars>>

\* self._run_hook(hook, force_include=force_include) with the functions
\* functions imported for the hook, each returning a list of MaxLines lines.
RunHook(hook, functions, force_include) ==
    /\ ncalls < MaxCalls
    /\ \E r \in {_run_hook([gen EXCEPT
                              !.imports[hook] = functions,
                              !.returns = [f \in Functions |->
                                              ReturnValue(f, MaxLines)]],
                           included_functions, hook, force_include)} :
        /\ included_functions' = r.included
        /\ call' = [kind |-> "hook", function |-> hook, output |-> None,
                    force_include |-> force_include,
                    before |-> included_functions, ret |-> r.ret, err |-> r.err]
    /\ ncalls' = ncalls + 1
    /\ UNCHANGED <<pc, config, gen, init, custom_init, files, error, level,
                   runlevel, dumped, shVars, csVars>>

FuncNext ==
    \/ \E function \in InternalFunctions \cup ExternalFunctions :
        \E kind \in ReturnKinds, force_include \in BOOLEAN :
            RunFunc(function, kind, force_include)
    \/ \E hook \in BoundHooks :
        \E functions \in SeqsUpTo(ExternalFunctions, MaxRegs) :
            RunHook(hook, functions, hook = "functions")

\* Direct calls of _run_func and _run_hook on one generator.
SpecFunc == FuncInit /\ [][FuncNext]_vars

\* ------------------------------------------------- properties: _run_func
\* The last call was of _run_func.
FuncCalled == call.kind = "func"
\* What the function returned is one line: a str, or a list of one element.
OneLine(v) == v.type = "str" \/ (v.type = "list" /\ Len(v.val) = 1)
\* What the function returned is a list of two or more lines.
ManyLines(v) == v.type = "list" /\ Len(v.val) >= 2
\* The body _run_func registers for a returned value.
BodyOf(v) == IF OneLine(v) THEN Str(v.val[1]) ELSE v
\* The name of the called function is free: not registered, not a binary.
NameFree == ~Included(call.before, call.function) /\ call.function \notin Binaries
\* The call returned the name and registered the function under it.
Registered ==
    /\ call.err = NoError
    /\ call.ret = Str(Call(call.function))
    /\ included_functions =
        Append(call.before, [name |-> call.function, body |-> BodyOf(call.output)])
\* The call returned the line and registered nothing.
Inlined ==
    /\ call.err = NoError
    /\ call.ret = Str(call.output.val[1])
    /\ included_functions = call.before
\* The call returned nothing and registered nothing.
Nothing ==
    /\ call.ret = None
    /\ included_functions = call.before

\* C6 as claimed: one line is inlined (registered with force_include), two
\* or more lines are registered, no output is nothing.
C6_AsClaimed ==
    FuncCalled =>
        /\ ~Truthy(call.output) => (Nothing /\ call.err = NoError)
        /\ (OneLine(call.output) /\ ~call.force_include) => Inlined
        /\ (OneLine(call.output) /\ call.force_include) => Registered
        /\ ManyLines(call.output) => Registered

\* C6: for a function whose name is free, one line is inlined (registered
\* with force_include), two or more lines are registered; no output is
\* nothing; and output under a name that is not free raises and is nothing.
C6_InlineOrRegister ==
    FuncCalled =>
        /\ ~Truthy(call.output) => (Nothing /\ call.err = NoError)
        /\ (NameFree /\ OneLine(call.output) /\ ~call.force_include) => Inlined
        /\ (NameFree /\ OneLine(call.output) /\ call.force_include) => Registered
        /\ (NameFree /\ ManyLines(call.output)) => Registered
        /\ (~NameFree /\ Truthy(call.output)) => (Nothing /\ call.err # NoError)

\* C6 witness: after a registration, a function of free name returned one
\* line and it was inlined.
C6_Witness ==
    /\ FuncCalled
    /\ call.before # <<>>
    /\ NameFree
    /\ call.output.type = "list"
    /\ OneLine(call.output)
    /\ Inlined

IsPrefix(s, t) == Len(s) <= Len(t) /\ SubSeq(t, 1, Len(s)) = s

\* C7: running a function that has output and whose name is registered
\* raises and leaves included_functions as it was; no call, of _run_func or
\* of _run_hook, changes or removes an earlier registration, and no name is
\* registered twice.
C7_DuplicateRaises ==
    /\ (FuncCalled /\ Included(call.before, call.function) /\ Truthy(call.output))
        => /\ call.err = "ValueError: already included"
           /\ Nothing
    /\ IsPrefix(call.before, included_functions)
    /\ \A i, j \in 1..Len(included_functions) :
        included_functions[i].name = included_functions[j].name => i = j

\* C7 witness: a registered function was run again, returning another body.
C7_Witness ==
    /\ FuncCalled
    /\ Truthy(call.output)
    /\ \E i \in 1..Len(call.before) :
        /\ call.before[i].name = call.function
        /\ call.before[i].body # BodyOf(call.output)

\* C8: running a function that has output and the name of a binary raises,
\* returns nothing and registers nothing.
C8_BinaryCollision ==
    (FuncCalled /\ Truthy(call.output) /\ call.function \in Binaries)
        => /\ call.err # NoError
           /\ Nothing
           /\ ~Included(included_functions, call.function)

\* C8 witness: the function named like the binary btrfs returned lines.
C8_Witness ==
    /\ FuncCalled
    /\ call.function \in Binaries
    /\ ManyLines(call.output)

\* ------------------------------------------- the script of crypt_init
\* retries of a volume
MaxRetries == 2
\* volumes of one configuration
MaxVols == 2

\* One line of the generated script: what it does (op), with what (arg),
\* for which volume (vol, the number in its mapped name) and a number (n).
Ln(op, arg, vol, n) == [op |-> op, arg |-> arg, vol |-> vol, n |-> n]
Msg(arg, vol) == Ln("msg", arg, vol, 0)

\* 'command > /run/vars/key_data || reset_command', reset_command being
\* 'continue' (n = 0) unless the volume has one (n = 1).
KeyCommandLine(command, name, parameters) ==
    Ln("key_command", command, name, IF parameters.reset_command THEN 1 ELSE 0)

\* open_crypt_device, lines 450-468: the key command into key_data.
key_command_lines(settings, name, parameters) ==
    IF parameters.key_command
    THEN <<Msg("attempting_key", name), Msg("using_key_command", name)>>
            \o (IF parameters.plymouth_key_command /\ settings.plymouth
                THEN <<Ln("if", "plymouth_ping", name, 0),
                       KeyCommandLine("plymouth_key_command", name, parameters),
                       Ln("else", "", name, 0),
                       KeyCommandLine("key_command", name, parameters),
                       Ln("fi", "", name, 0)>>
                ELSE <<KeyCommandLine("key_command", name, parameters)>>)
    ELSE <<>>

\* The open attempts without the rm after a failed attempt with key_data.
open_attempt_lines_no_rm(settings, name, parameters) ==
    <<Msg("unlocking_device", name),
      Ln("if", "key_data_exists", name, 0),
      Ln("if", "open_key_data", name, 0),
      Ln("rm_key_data", "", name, 0),
      Ln("break", "", name, 0),
      Ln("fi", "", name, 0)>>
        \o (IF settings.plymouth
            THEN <<Ln("elif", "open_plymouth", name, 0), Ln("break", "", name, 0)>>
            ELSE <<>>)
        \o (IF parameters.key_file
            THEN <<Ln("elif", "open_key_file", name, 0)>>
            ELSE <<Ln("elif", "open_interactive", name, 0)>>)
        \o <<Ln("break", "", name, 0),
             Ln("fi", "", name, 0),
             Ln("msg", "failed_open", name, parameters.retries)>>

\* The open attempts without the break after the last one.
open_attempt_lines_no_break(settings, name, parameters) ==
    <<Msg("unlocking_device", name),
      Ln("if", "key_data_exists", name, 0),
      Ln("if", "open_key_data", name, 0),
      Ln("rm_key_data", "", name, 0),
      Ln("break", "", name, 0),
      Ln("fi", "", name, 0),
      Ln("rm_key_data", "", name, 0)>>
        \o (IF settings.plymouth
            THEN <<Ln("elif", "open_plymouth", name, 0), Ln("break", "", name, 0)>>
            ELSE <<>>)
        \o (IF parameters.key_file
            THEN <<Ln("elif", "open_key_file", name, 0)>>
            ELSE <<Ln("elif", "open_interactive", name, 0)>>)
        \o <<Msg("unlocking_device", name),
             Ln("fi", "", name, 0),
             Ln("msg", "failed_open", name, parameters.retries)>>

\* The open attempts with the key file tried before plymouth.
open_attempt_lines_key_file_first(settings, name, parameters) ==
    <<Msg("unlocking_device", name),
      Ln("if", "key_data_exists", name, 0),
      Ln("if", "open_key_data", name, 0),
      Ln("rm_key_data", "", name, 0),
      Ln("break", "", name, 0),
      Ln("fi", "", name, 0),
      Ln("rm_key_data", "", name, 0)>>
        \o (IF parameters.key_file
            THEN <<Ln("elif", "open_key_file", name, 0)>>
            ELSE <<Ln("elif", "open_interactive", name, 0)>>)
        \o <<Ln("break", "", name, 0)>>
        \o (IF settings.plymouth
            THEN <<Ln("elif", "open_plymouth", name, 0), Ln("break", "", name, 0)>>
            ELSE <<>>)
        \o <<Ln("fi", "", name, 0),
             Ln("msg", "failed_open", name, parameters.retries)>>

\* open_crypt_device, lines 481-500: the open attempts of one iteration
\* and the warning after them.
open_attempt_lines(settings, name, parameters) ==
    <<Msg("unlocking_device", name),
      Ln("if", "key_data_exists", name, 0),
      Ln("if", "open_key_data", name, 0),
      Ln("rm_key_data", "", name, 0),
      Ln("break", "", name, 0),
      Ln("fi", "", name, 0),
      Ln("rm_key_data", "", name, 0)>>
        \o (IF settings.plymouth
            THEN <<Ln("elif", "open_plymouth", name, 0), Ln("break", "", name, 0)>>
            ELSE <<>>)
        \o (IF parameters.key_file
            THEN <<Ln("elif", "open_key_file", name, 0)>>
            ELSE <<Ln("elif", "open_interactive", name, 0)>>)
        \o <<Ln("break", "", name, 0),
             Ln("fi", "", name, 0),
             Ln("msg", "failed_open", name, parameters.retries)>>

\* open_crypt_device raises KeyError: parameters['key_file'] is read for
\* the message of the key command.
open_crypt_device_raises(parameters) ==
    parameters.key_command /\ ~parameters.key_file

\* open_crypt_device: the unlock loop of one volume.
open_crypt_device(settings, name, parameters) ==
    (IF settings.cryptsetup_prompt THEN <<Msg("press_enter_unlock", name)>> ELSE <<>>)
        \o <<Ln("for", "i", name, parameters.retries),
             Ln("crypt_dev", "get_crypt_dev", name, 0),
             Ln("if", "crypt_dev_empty", name, 0),
             Ln("rd_fail", "resolve", name, 0),
             Ln("fi", "", name, 0)>>
        \o key_command_lines(settings, name, parameters)
        \o (IF parameters.header_file THEN <<Msg("using_header", name)>> ELSE <<>>)
        \o open_attempt_lines(settings, name, parameters)
        \o (IF ~settings.cryptsetup_autoretry
            THEN <<Msg("press_enter_retry", name)>> ELSE <<>>)
        \o (IF parameters.reset_command
            THEN <<Msg("running_reset", name), Ln("reset_command", "", name, 0)>>
            ELSE <<>>)
        \o <<Ln("done", "", name, 0)>>

\* crypt_init, lines 527-533: the parameters without key_file, key_command
\* and reset_command.
new_params(parameters) ==
    [parameters EXCEPT !.key_file = FALSE, !.key_command = FALSE,
                       !.reset_command = FALSE]

\* The lines for one volume with the loop without keys not under the test
\* that the volume is still closed.
volume_lines_fallback_unguarded(settings, name, parameters) ==
    <<Ln("if", "status", name, 0),
      Msg("already_open", name),
      Ln("return", "", name, 0),
      Ln("fi", "", name, 0)>>
        \o open_crypt_device(settings, name, parameters)
        \o (IF parameters.try_nokey # "absent" /\ parameters.key_file
            THEN <<Msg("failed_using_keys", name)>>
                    \o open_crypt_device(settings, name, new_params(parameters))
            ELSE <<>>)
        \o <<Ln("if", "not_status", name, 0),
             Ln("rd_fail", "open", name, 0),
             Ln("fi", "", name, 0),
             Msg("success", name)>>

\* The lines for one volume without the last test that it is open.
volume_lines_no_final_check(settings, name, parameters) ==
    <<Ln("if", "status", name, 0),
      Msg("already_open", name),
      Ln("return", "", name, 0),
      Ln("fi", "", name, 0)>>
        \o open_crypt_device(settings, name, parameters)
        \o (IF parameters.try_nokey # "absent" /\ parameters.key_file
            THEN <<Ln("if", "not_status", name, 0), Msg("failed_using_keys", name)>>
                    \o open_crypt_device(settings, name, new_params(parameters))
                    \o <<Ln("fi", "", name, 0)>>
            ELSE <<>>)
        \o <<Msg("success", name)>>

\* crypt_init, lines 519-546: the lines for one volume.
volume_lines(settings, name, parameters) ==
    <<Ln("if", "status", name, 0),
      Msg("already_open", name),
      Ln("return", "", name, 0),
      Ln("fi", "", name, 0)>>
        \o open_crypt_device(settings, name, parameters)
        \o (IF parameters.try_nokey # "absent" /\ parameters.key_file
            THEN <<Ln("if", "not_status", name, 0), Msg("failed_using_keys", name)>>
                    \o open_crypt_device(settings, name, new_params(parameters))
                    \o <<Ln("fi", "", name, 0)>>
            ELSE <<>>)
        \o <<Ln("if", "not_status", name, 0),
             Ln("rd_fail", "open", name, 0),
             Ln("fi", "", name, 0),
             Msg("success", name)>>

\* crypt_init: the script for the volumes 1..Len(volumes), in order.
RECURSIVE crypt_init_from(_, _, _)
crypt_init_from(settings, volumes, name) ==
    IF name > Len(volumes) THEN <<>>
    ELSE volume_lines(settings, name, volumes[name])
            \o crypt_init_from(settings, volumes, name + 1)

crypt_init(settings, volumes) ==
    <<Msg("unlocking_volumes", 0)>> \o crypt_init_from(settings, volumes, 1)

crypt_init_raises(volumes) ==
    \E name \in 1..Len(volumes) : open_crypt_device_raises(volumes[name])

\* ------------------------------------------- running the script
\* The line that ends the branch begun at line k: the first elif, else or
\* fi after k that belongs to the same if.
RECURSIVE BranchEnd(_, _, _)
BranchEnd(lines, j, depth) ==
    IF lines[j].op = "if" THEN BranchEnd(lines, j + 1, depth + 1)
    ELSE IF lines[j].op = "fi"
         THEN IF depth = 0 THEN j ELSE BranchEnd(lines, j + 1, depth - 1)
    ELSE IF lines[j].op \in {"elif", "else"} /\ depth = 0 THEN j
    ELSE BranchEnd(lines, j + 1, depth)

\* The fi of the if that the line k is in.
RECURSIVE MatchingFi(_, _, _)
MatchingFi(lines, j, depth) ==
    IF lines[j].op = "if" THEN MatchingFi(lines, j + 1, depth + 1)
    ELSE IF lines[j].op = "fi"
         THEN IF depth = 0 THEN j ELSE MatchingFi(lines, j + 1, depth - 1)
    ELSE MatchingFi(lines, j + 1, depth)

\* The done of the loop that the line k is in: no loop holds another one.
RECURSIVE LoopEnd(_, _)
LoopEnd(lines, j) == IF lines[j].op = "done" THEN j ELSE LoopEnd(lines, j + 1)

\* The for of the loop that ends at the line k.
RECURSIVE LoopStart(_, _)
LoopStart(lines, j) == IF lines[j].op = "for" THEN j ELSE LoopStart(lines, j - 1)

\* What is remembered of the loop being run: its for line, its bound, the number of
\* times its body was entered, whether an open succeeded in it, whether
\* the body was entered after that, whether key_data was used by an open
\* attempt and not removed since, the last warning's number with the
\* iteration that gave it, the iteration that last waited for the user to
\* press enter, and the open attempts of the iteration in order, each with
\* its outcome and with whether key_data was there.
NoLoop ==
    [start |-> 0, retries |-> 0, iters |-> 0, opened |-> FALSE,
     after_success |-> FALSE, key_used |-> FALSE, warned |-> 0, warned_at |-> 0,
     confirmed_at |-> 0, tried |-> <<>>]

Running == sh_status = "running" /\ sh_pc \in 1..Len(script)
Current == script[sh_pc]

\* What follows a test at the line k: the branch, or the next elif, or
\* the else branch, or the line after fi.
Branch(k, outcome) ==
    IF outcome THEN [pc |-> k + 1, test |-> FALSE]
    ELSE The({ IF script[j].op = "elif" THEN [pc |-> j, test |-> TRUE]
               ELSE [pc |-> j + 1, test |-> FALSE]
               : j \in {BranchEnd(script, k + 1, 0)} })

IsTest == Current.op = "if" \/ (Current.op = "elif" /\ sh_test)

\* einfo, ewarn, edebug, prompt_user: the warning of a failed iteration
\* shows $i.
ExecMsg ==
    /\ Running /\ Current.op = "msg"
    /\ sh_loop' = IF Current.arg = "failed_open"
                  THEN [sh_loop EXCEPT !.warned = sh_i, !.warned_at = sh_loop.iters]
                  ELSE IF Current.arg = "press_enter_retry"
                  THEN [sh_loop EXCEPT !.confirmed_at = sh_loop.iters]
                  ELSE sh_loop
    /\ sh_pc' = sh_pc + 1
    /\ UNCHANGED <<crypt, script, sh_status, sh_test, sh_open, sh_key_data, sh_i, sh_crypt_dev>>
    /\ UNCHANGED <<genVars, funcVars, csVars>>

\* cryptsetup status, [ -z "$crypt_dev" ], [ -e /run/vars/key_data ].
TestOutcome(line) ==
    CASE line.arg = "status" -> line.vol \in sh_open
      [] line.arg = "not_status" -> line.vol \notin sh_open
      [] line.arg = "crypt_dev_empty" -> ~sh_crypt_dev
      [] line.arg = "key_data_exists" -> sh_key_data

ExecTest ==
    /\ Running /\ IsTest
    /\ Current.arg \in {"status", "not_status", "crypt_dev_empty", "key_data_exists"}
    /\ \E b \in {Branch(sh_pc, TestOutcome(Current))} :
        /\ sh_pc' = b.pc
        /\ sh_test' = b.test
    /\ UNCHANGED sh_loop
    /\ UNCHANGED <<crypt, script, sh_status, sh_open, sh_key_data, sh_i, sh_crypt_dev>>
    /\ UNCHANGED <<genVars, funcVars, csVars>>

\* plymouth --ping: plymouth runs or it does not.
ExecPlymouthPing ==
    /\ Running /\ IsTest /\ Current.arg = "plymouth_ping"
    /\ \E ping \in BOOLEAN : \E b \in {Branch(sh_pc, ping)} :
        /\ sh_pc' = b.pc
        /\ sh_test' = b.test
    /\ UNCHANGED sh_loop
    /\ UNCHANGED <<crypt, script, sh_status, sh_open, sh_key_data, sh_i, sh_crypt_dev>>
    /\ UNCHANGED <<genVars, funcVars, csVars>>

\* cryptsetup open, with key_data, through plymouth, with the key file or
\* asking: it opens the volume or fails.
OpenMethods == {"open_key_data", "open_plymouth", "open_key_file", "open_interactive"}

ExecOpen ==
    /\ Running /\ IsTest /\ Current.arg \in OpenMethods
    /\ \E ok \in BOOLEAN : \E b \in {Branch(sh_pc, ok)} :
        /\ ok => Current.vol \notin sh_open
        /\ sh_open' = IF ok THEN sh_open \cup {Current.vol} ELSE sh_open
        /\ sh_loop' = [sh_loop EXCEPT
                          !.opened = sh_loop.opened \/ ok,
                          !.key_used = sh_loop.key_used \/ Current.arg = "open_key_data",
                          !.tried = Append(sh_loop.tried,
                                           [method |-> Current.arg, ok |-> ok,
                                            key_data |-> sh_key_data])]
        /\ sh_pc' = b.pc
        /\ sh_test' = b.test
    /\ UNCHANGED <<crypt, script, sh_status, sh_key_data, sh_i, sh_crypt_dev>>
    /\ UNCHANGED <<genVars, funcVars, csVars>>

\* elif or else reached at the end of a branch that was taken: on to fi.
ExecBranchEnd ==
    /\ Running /\ Current.op \in {"elif", "else"} /\ ~sh_test
    /\ sh_pc' = MatchingFi(script, sh_pc + 1, 0) + 1
    /\ UNCHANGED <<crypt, script, sh_status, sh_test, sh_open, sh_key_data, sh_i, sh_crypt_dev, sh_loop>>
    /\ UNCHANGED <<genVars, funcVars, csVars>>

ExecFi ==
    /\ Running /\ Current.op = "fi"
    /\ sh_pc' = sh_pc + 1
    /\ UNCHANGED <<crypt, script, sh_status, sh_test, sh_open, sh_key_data, sh_i, sh_crypt_dev, sh_loop>>
    /\ UNCHANGED <<genVars, funcVars, csVars>>

\* for ((i = 1; i <= retries; i++)); do
ExecFor ==
    /\ Running /\ Current.op = "for"
    /\ sh_i' = 1
    /\ IF 1 <= Current.n
       THEN /\ sh_pc' = sh_pc + 1
            /\ sh_loop' = [NoLoop EXCEPT !.start = sh_pc, !.retries = Current.n,
                                          !.iters = 1]
       ELSE /\ sh_pc' = LoopEnd(script, sh_pc) + 1
            /\ sh_loop' = [NoLoop EXCEPT !.start = sh_pc, !.retries = Current.n]
    /\ UNCHANGED <<crypt, script, sh_status, sh_test, sh_open, sh_key_data, sh_crypt_dev>>
    /\ UNCHANGED <<genVars, funcVars, csVars>>

\* done: i++, then the test of the loop.
ExecDone ==
    /\ Running /\ Current.op = "done"
    /\ sh_i' = sh_i + 1
    /\ \E for \in {LoopStart(script, sh_pc)} :
        IF sh_i + 1 <= script[for].n
        THEN /\ sh_pc' = for + 1
             /\ sh_loop' = [sh_loop EXCEPT
                               !.iters = sh_loop.iters + 1,
                               !.after_success = sh_loop.opened,
                               !.tried = <<>>]
        ELSE /\ sh_pc' = sh_pc + 1
             /\ sh_loop' = sh_loop
    /\ UNCHANGED <<crypt, script, sh_status, sh_test, sh_open, sh_key_data, sh_crypt_dev>>
    /\ UNCHANGED <<genVars, funcVars, csVars>>

ExecBreak ==
    /\ Running /\ Current.op = "break"
    /\ sh_pc' = LoopEnd(script, sh_pc) + 1
    /\ UNCHANGED sh_loop
    /\ UNCHANGED <<crypt, script, sh_status, sh_test, sh_open, sh_key_data, sh_i, sh_crypt_dev>>
    /\ UNCHANGED <<genVars, funcVars, csVars>>

\* return: crypt_init is one shell function, it ends there.
ExecReturn ==
    /\ Running /\ Current.op = "return"
    /\ sh_status' = "returned"
    /\ UNCHANGED <<crypt, script, sh_pc, sh_test, sh_open, sh_key_data, sh_i, sh_crypt_dev, sh_loop>>
    /\ UNCHANGED <<genVars, funcVars, csVars>>

\* rd_fail does not come back: what it runs is no part of the script.
ExecRdFail ==
    /\ Running /\ Current.op = "rd_fail"
    /\ sh_status' = "rd_fail"
    /\ UNCHANGED <<crypt, script, sh_pc, sh_test, sh_open, sh_key_data, sh_i, sh_crypt_dev, sh_loop>>
    /\ UNCHANGED <<genVars, funcVars, csVars>>

\* crypt_dev="$(get_crypt_dev name)": a device, or nothing.
ExecCryptDev ==
    /\ Running /\ Current.op = "crypt_dev"
    /\ sh_crypt_dev' \in BOOLEAN
    /\ sh_pc' = sh_pc + 1
    /\ UNCHANGED sh_loop
    /\ UNCHANGED <<crypt, script, sh_status, sh_test, sh_open, sh_key_data, sh_i>>
    /\ UNCHANGED <<genVars, funcVars, csVars>>

\* command > /run/vars/key_data || reset_command: the redirection makes
\* the file whatever the command does; when it fails, continue goes to
\* the next iteration and a reset command runs before the next line.
ExecKeyCommand ==
    /\ Running /\ Current.op = "key_command"
    /\ sh_key_data' = TRUE
    /\ \E ok \in BOOLEAN :
        sh_pc' = IF ~ok /\ Current.n = 0 THEN LoopEnd(script, sh_pc) ELSE sh_pc + 1
    /\ UNCHANGED sh_loop
    /\ UNCHANGED <<crypt, script, sh_status, sh_test, sh_open, sh_i, sh_crypt_dev>>
    /\ UNCHANGED <<genVars, funcVars, csVars>>

\* rm /run/vars/key_data
ExecRm ==
    /\ Running /\ Current.op = "rm_key_data"
    /\ sh_key_data' = FALSE
    /\ sh_loop' = [sh_loop EXCEPT !.key_used = FALSE]
    /\ sh_pc' = sh_pc + 1
    /\ UNCHANGED <<crypt, script, sh_status, sh_test, sh_open, sh_i, sh_crypt_dev>>
    /\ UNCHANGED <<genVars, funcVars, csVars>>

\* the reset command of the volume, at the end of a failed iteration
ExecResetCommand ==
    /\ Running /\ Current.op = "reset_command"
    /\ sh_pc' = sh_pc + 1
    /\ UNCHANGED sh_loop
    /\ UNCHANGED <<crypt, script, sh_status, sh_test, sh_open, sh_key_data, sh_i, sh_crypt_dev>>
    /\ UNCHANGED <<genVars, funcVars, csVars>>

\* the end of the script
ExecEnd ==
    /\ sh_status = "running" /\ sh_pc = Len(script) + 1
    /\ sh_status' = "finished"
    /\ UNCHANGED <<crypt, script, sh_pc, sh_test, sh_open, sh_key_data, sh_i, sh_crypt_dev, sh_loop>>
    /\ UNCHANGED <<genVars, funcVars, csVars>>

CryptNext ==
    \/ ExecMsg
    \/ ExecTest
    \/ ExecPlymouthPing
    \/ ExecOpen
    \/ ExecBranchEnd
    \/ ExecFi
    \/ ExecFor
    \/ ExecDone
    \/ ExecBreak
    \/ ExecReturn
    \/ ExecRdFail
    \/ ExecCryptDev
    \/ ExecKeyCommand
    \/ ExecRm
    \/ ExecResetCommand
    \/ ExecEnd

\* The configurations of one volume: which keys of its parameters are
\* there, and the settings the script depends on.
Parameters ==
    [retries : 1..MaxRetries,
     key_file : BOOLEAN, key_command : BOOLEAN, plymouth_key_command : BOOLEAN,
     reset_command : BOOLEAN, header_file : {FALSE},
     try_nokey : {"absent", "true", "false"}]

Settings ==
    [cryptsetup_prompt : BOOLEAN, cryptsetup_autoretry : BOOLEAN, plymouth : BOOLEAN]

\* The generator is left as constructed; the script is made and started,
\* or crypt_init raised.
CryptStart(settings, volumes, open) ==
    /\ GenIdle /\ FuncIdle /\ CsIdle
    /\ crypt = [settings |-> settings, volumes |-> volumes]
    /\ script = IF crypt_init_raises(volumes) THEN <<>> ELSE crypt_init(settings, volumes)
    /\ sh_status = IF crypt_init_raises(volumes) THEN "raised" ELSE "running"
    /\ sh_pc = 1
    /\ sh_test = FALSE
    /\ sh_open = open
    /\ sh_key_data = FALSE
    /\ sh_i = 0
    /\ sh_crypt_dev = FALSE
    /\ sh_loop = NoLoop

\* One volume, in every configuration.
CryptInit ==
    \E settings \in Settings, parameters \in Parameters, open \in SUBSET {1} :
        /\ parameters.plymouth_key_command => parameters.key_command
        /\ CryptStart(settings, <<parameters>>, open)

SpecCrypt == CryptInit /\ [][CryptNext]_vars

\* Several volumes, each plain or with every key there is.
PlainParameters ==
    [retries |-> 1, key_file |-> FALSE, key_command |-> FALSE,
     plymouth_key_command |-> FALSE, reset_command |-> FALSE,
     header_file |-> FALSE, try_nokey |-> "absent"]

KeyedParameters ==
    [retries |-> 1, key_file |-> TRUE, key_command |-> TRUE,
     plymouth_key_command |-> TRUE, reset_command |-> TRUE,
     header_file |-> TRUE, try_nokey |-> "true"]

CryptInitVolumes ==
    \E n \in 1..MaxVols :
        \E volumes \in [1..n -> {PlainParameters, KeyedParameters}],
           plymouth \in BOOLEAN, open \in SUBSET (1..n) :
            CryptStart([cryptsetup_prompt |-> plymouth,
                        cryptsetup_autoretry |-> ~plymouth,
                        plymouth |-> plymouth], volumes, open)

SpecCryptVolumes == CryptInitVolumes /\ [][CryptNext]_vars

\* ------------------------------------------- properties of the script
Volumes == 1..Len(crypt.volumes)

\* The script ended and rd_fail was not called.
EndedWithoutFail == sh_status \in {"finished", "returned"}

\* C1: when the script of crypt_init ends without rd_fail, every declared
\* volume is open; a volume found open at the start skips only its own
\* unlock loop, the volumes declared after it are still unlocked.
C1_EveryVolumeOpen ==
    EndedWithoutFail => \A name \in Volumes : name \in sh_open

\* The line k is in the body of an unlock loop (the done line included).
InBody(k) ==
    \E j \in 1..Len(script) :
        script[j].op = "for" /\ j < k /\ k <= LoopEnd(script, j)

\* C9: in an unlock loop with retries = r, i counts the entries of the
\* body, 1..r in order, so the body is entered at most r times; the
\* warning of a failed iteration shows the number of that iteration; and
\* the body is not entered again once an open attempt succeeded.
C9_LoopCounter ==
    /\ (Running /\ InBody(sh_pc)) =>
            /\ sh_loop.retries = script[LoopStart(script, sh_pc)].n
            /\ sh_i = sh_loop.iters
            /\ 1 <= sh_i /\ sh_i <= sh_loop.retries
    /\ sh_loop.iters <= sh_loop.retries
    /\ sh_loop.warned = sh_loop.warned_at
    /\ ~sh_loop.after_success

\* The first iteration failed and gave its warning, the second one opened
\* the volume.
C9_Witness ==
    /\ sh_loop.iters = 2 /\ sh_i = 2
    /\ sh_loop.warned = 1
    /\ sh_loop.opened

\* C10: an open attempt that used /run/vars/key_data is followed by the
\* rm of that file before any other command of the loop, whether it
\* opened the volume (before break) or not; the other open attempts are
\* made without that file.
C10_KeyDataRemoved ==
    /\ sh_loop.key_used => (Running /\ Current.op = "rm_key_data")
    /\ (Running /\ IsTest /\ Current.arg \in OpenMethods \ {"open_key_data"})
            => ~sh_key_data
    /\ (Running /\ IsTest /\ Current.arg = "open_key_data") => sh_key_data

\* An open attempt with key_data failed in the second iteration and the
\* file is about to be removed.
C10_Witness ==
    /\ sh_loop.key_used /\ ~sh_loop.opened
    /\ sh_loop.iters = 2
    /\ Current.op = "rm_key_data"

\* ------------------------------------------- the cryptsetup configuration
\* A configuration is a dict: a function from the keys it has. Flags hold
\* booleans, retries a number, the key commands a command, the rest text.
CRYPTSETUP_KEY_PARAMETERS == {"key_command", "plymouth_key_command", "reset_command"}

CRYPTSETUP_PARAMETERS ==
    {"key_type", "partuuid", "uuid", "path", "key_file", "header_file", "retries"}
        \cup CRYPTSETUP_KEY_PARAMETERS
        \cup {"try_nokey", "include_key", "include_header", "validate_key",
              "validate_header"}

\* The boolean flags a volume may carry.
FlagKeys ==
    {"validate", "validate_key", "validate_header", "include_key",
     "include_header", "try_nokey"}

EmptyDict == <<>>

\* dict(a, **b), a.update(b)
Merge(a, b) ==
    [k \in DOMAIN a \cup DOMAIN b |-> IF k \in DOMAIN b THEN b[k] ELSE a[k]]

\* {key: value}
Entry(key, value) == [k \in {key} |-> value]

\* A command: its text with at most one '{field}' to fill in, and what
\* was filled in.
Command(text, field) == [text |-> text, field |-> field, arg |-> ""]

\* bool(value) for the value of the key k
IsTrue(k, value) ==
    IF k \in FlagKeys THEN value = TRUE
    ELSE IF k = "retries" THEN value # 0
    ELSE IF k \in CRYPTSETUP_KEY_PARAMETERS THEN value.text # ""
    ELSE value # ""

\* bool(d.get(k))
IsSet(d, k) == k \in DOMAIN d /\ IsTrue(k, d[k])

\* d.get(k) is False
IsFalse(d, k) == k \in DOMAIN d /\ d[k] = FALSE

\* An exception and no exception.
Err(class, msg) == [class |-> class, msg |-> msg]
CsOk == Err("none", "")

\* value.format(**config) raises KeyError when the field is no key of
\* config.
format_raises(value, d) == value.field # "" /\ value.field \notin DOMAIN d

format(value, d) ==
    IF value.field = "" THEN value
    ELSE [text |-> value.text, field |-> "", arg |-> d[value.field]]

\* self["cryptsetup"] keeps the order of insertion: a sequence of names
\* with their configurations.
StoreNames(store) == { store[i].name : i \in DOMAIN store }

StoreGet(store, mapped_name) ==
    The({ store[i].config : i \in { j \in DOMAIN store : store[j].name = mapped_name } })

StoreSet(store, mapped_name, d) ==
    IF mapped_name \in StoreNames(store)
    THEN [i \in DOMAIN store |->
            IF store[i].name = mapped_name
            THEN [name |-> mapped_name, config |-> d] ELSE store[i]]
    ELSE Append(store, [name |-> mapped_name, config |-> d])

\* _merge_cryptsetup
_merge_cryptsetup(store, mapped_name, d) ==
    IF mapped_name \notin StoreNames(store) THEN d
    ELSE Merge(StoreGet(store, mapped_name), d)

\* _process_cryptsetup_key_types_multi without the check of key_command.
_process_cryptsetup_key_types_multi_no_key_command_check(key_types, key_type, d) ==
    IF \E parameter \in DOMAIN d : parameter \notin CRYPTSETUP_KEY_PARAMETERS
    THEN [key_types |-> key_types, err |-> Err("ValueError", "Invalid parameter")]
    ELSE IF key_type \in DOMAIN key_types
    THEN [key_types |-> Merge(key_types, Entry(key_type, Merge(key_types[key_type], d))),
          err |-> CsOk]
    ELSE [key_types |-> Merge(key_types, Entry(key_type, d)), err |-> CsOk]

\* _process_cryptsetup_key_types_multi: the key types after the call and
\* what was raised.
_process_cryptsetup_key_types_multi(key_types, key_type, d) ==
    IF \E parameter \in DOMAIN d : parameter \notin CRYPTSETUP_KEY_PARAMETERS
    THEN [key_types |-> key_types, err |-> Err("ValueError", "Invalid parameter")]
    ELSE IF key_type \in DOMAIN key_types
    THEN [key_types |-> Merge(key_types, Entry(key_type, Merge(key_types[key_type], d))),
          err |-> CsOk]
    ELSE IF "key_command" \notin DOMAIN d
    THEN [key_types |-> key_types, err |-> Err("ValidationError", "Missing key_command")]
    ELSE [key_types |-> Merge(key_types, Entry(key_type, d)), err |-> CsOk]

\* _process_cryptsetup_multi, lines 118-127: the key type of the volume and
\* what it inherits from it, the key parameters in their order.
RECURSIVE inherit(_, _, _)
inherit(d, key_type_config, parameters) ==
    IF parameters = <<>> THEN [config |-> d, err |-> CsOk]
    ELSE IF ~IsSet(key_type_config, Head(parameters))
    THEN inherit(d, key_type_config, Tail(parameters))
    ELSE IF format_raises(key_type_config[Head(parameters)], d)
    THEN [config |-> d, err |-> Err("KeyError", "format")]
    ELSE inherit(Merge(d, Entry(Head(parameters),
                                format(key_type_config[Head(parameters)], d))),
                 key_type_config, Tail(parameters))

\* config.get("key_type", self.get("cryptsetup_key_type"))
key_type_of(globals, d) ==
    IF "key_type" \in DOMAIN d THEN d.key_type ELSE globals.cryptsetup_key_type

with_key_type(globals, key_types, d) ==
    IF key_type_of(globals, d) = "" THEN [config |-> d, err |-> CsOk]
    ELSE IF key_type_of(globals, d) \notin DOMAIN key_types
    THEN [config |-> d, err |-> Err("ValueError", "Unknown key type")]
    ELSE inherit(Merge(d, Entry("key_type", key_type_of(globals, d))),
                 key_types[key_type_of(globals, d)],
                 <<"key_command", "plymouth_key_command", "reset_command">>)

\* lines 130-132: config["key_file"], config["header_file"] are read for
\* the dependencies.
include_raises(d) ==
    \/ IsSet(d, "include_key") /\ "key_file" \notin DOMAIN d
    \/ IsSet(d, "include_header") /\ "header_file" \notin DOMAIN d

\* lines 134-138, the default whatever the volume says.
with_retries_always_default(globals, d) ==
    Merge(d, Entry("retries", globals.cryptsetup_retries))

\* lines 134-138
with_retries(globals, d) ==
    IF ~IsSet(d, "retries")
    THEN Merge(d, Entry("retries", globals.cryptsetup_retries))
    ELSE d

\* _process_cryptsetup_multi that refuses unknown parameters.
_process_cryptsetup_multi_strict(globals, store, key_types, mapped_name, d) ==
    The({ IF \E parameter \in DOMAIN d : parameter \notin CRYPTSETUP_PARAMETERS
          THEN [cryptsetup |-> store, logged |-> {},
                err |-> Err("ValueError", "Invalid parameter")]
          ELSE IF r.err # CsOk
          THEN [cryptsetup |-> store, logged |-> {}, err |-> r.err]
          ELSE IF include_raises(r.config)
          THEN [cryptsetup |-> store, logged |-> {},
                err |-> Err("KeyError", "include")]
          ELSE [cryptsetup |-> StoreSet(store, mapped_name,
                                        with_retries(globals, r.config)),
                logged |-> {}, err |-> CsOk]
          : r \in {with_key_type(globals, key_types,
                                 _merge_cryptsetup(store, mapped_name, d))} })

\* _process_cryptsetup_multi: the volumes after the call, the parameters
\* logged as unknown and what was raised.
_process_cryptsetup_multi(globals, store, key_types, mapped_name, d) ==
    The({ [cryptsetup |->
              IF r.err # CsOk \/ include_raises(r.config) THEN store
              ELSE StoreSet(store, mapped_name, with_retries(globals, r.config)),
           logged |-> { parameter \in DOMAIN d : parameter \notin CRYPTSETUP_PARAMETERS },
           err |-> IF r.err # CsOk THEN r.err
                   ELSE IF include_raises(r.config) THEN Err("KeyError", "include")
                   ELSE CsOk]
          : r \in {with_key_type(globals, key_types,
                                 _merge_cryptsetup(store, mapped_name, d))} })

\* ------------------------------------------- processing the configuration
\* calls of the processing functions in one run
MaxCsCalls == 3

MappedNames == {1, 2}
KeyTypeNames == {"gpg", "plain"}

NoCsCall ==
    [op |-> "none", name |-> 0, key_type |-> "", input |-> EmptyDict, cryptsetup |-> <<>>,
     key_types |-> EmptyDict, logged |-> {}, exports |-> EmptyDict, runs |-> <<>>,
     raised_at |-> 0, err |-> CsOk]

\* What is set for a key type: a command that reads the key file, commands
\* that do not, a reset command alone, a parameter that is none of a key
\* type.
KeyTypeConfigs ==
    {[key_command |-> Command("gpg --decrypt", "key_file")],
     [key_command |-> Command("cat /dev/ttyS0", ""),
      reset_command |-> Command("reset_key", "")],
     [reset_command |-> Command("reset_key", "")],
     [key_command |-> Command("cat /dev/ttyS0", ""), key_file |-> "/boot/key"]}

\* What is set for a volume: its source, a key file, a key command of its
\* own, a key type, its retries, and a parameter the module does not know.
VolumeBases ==
    {[partuuid |-> "P1"],
     [partuuid |-> "P1", key_file |-> "/boot/key"],
     [partuuid |-> "P1", key_file |-> "/boot/key",
      key_command |-> Command("cat /etc/own_key", "")],
     [partuuid |-> "P1", key_file |-> "/boot/key", key_type |-> "gpg"],
     [partuuid |-> "P1", key_type |-> "gpg"],
     [partuuid |-> "P1", key_type |-> "plain"]}

RetriesGiven == {[retries |-> MaxRetries]}

UnknownParameter == [discard |-> "yes"]

VolumeConfigs ==
    { Merge(Merge(base, retries), unknown) :
        base \in VolumeBases,
        retries \in {EmptyDict} \cup RetriesGiven,
        unknown \in {EmptyDict, UnknownParameter} }

\* The settings of a run: the default key type may be set, the default of
\* retries is none of the values given to a volume.
ConfigGlobals ==
    [validate : {TRUE}, hostonly : {TRUE}, autodetect_root_luks : {FALSE},
     cryptsetup_header_validation : {TRUE}, cryptsetup_keyfile_validation : {TRUE},
     argon2 : {TRUE}, cryptsetup_key_type : {"", "gpg"},
     cryptsetup_retries : {MaxRetries + 1}]

ConfigInit ==
    /\ GenIdle /\ FuncIdle /\ ShIdle
    /\ cs_config \in ConfigGlobals
    /\ cs_host = <<>>
    /\ cryptsetup = <<>>
    /\ cryptsetup_key_types = EmptyDict
    /\ exports = EmptyDict
    /\ cs_call = NoCsCall
    /\ cs_calls = 0

\* self["cryptsetup_key_types"] = {key_type: d}
ProcessKeyType(key_type, d) ==
    /\ cs_calls < MaxCsCalls
    /\ \E r \in {_process_cryptsetup_key_types_multi(cryptsetup_key_types, key_type, d)} :
        /\ cryptsetup_key_types' = r.key_types
        /\ cs_call' = [NoCsCall EXCEPT !.op = "key_type", !.key_type = key_type,
                          !.input = d, !.cryptsetup = cryptsetup,
                          !.key_types = cryptsetup_key_types, !.err = r.err]
    /\ cs_calls' = cs_calls + 1
    /\ UNCHANGED <<cs_config, cs_host, cryptsetup, exports>>
    /\ UNCHANGED <<genVars, funcVars, shVars>>

\* self["cryptsetup"] = {mapped_name: d}
ProcessCryptsetup(mapped_name, d) ==
    /\ cs_calls < MaxCsCalls
    /\ \E r \in {_process_cryptsetup_multi(cs_config, cryptsetup, cryptsetup_key_types,
                                           mapped_name, d)} :
        /\ cryptsetup' = r.cryptsetup
        /\ cs_call' = [NoCsCall EXCEPT !.op = "cryptsetup", !.name = mapped_name,
                          !.input = d, !.cryptsetup = cryptsetup,
                          !.key_types = cryptsetup_key_types,
                          !.logged = r.logged, !.err = r.err]
    /\ cs_calls' = cs_calls + 1
    /\ UNCHANGED <<cs_config, cs_host, cryptsetup_key_types, exports>>
    /\ UNCHANGED <<genVars, funcVars, shVars>>

ConfigNext ==
    \/ \E key_type \in KeyTypeNames, d \in KeyTypeConfigs : ProcessKeyType(key_type, d)
    \/ \E mapped_name \in MappedNames, d \in VolumeConfigs :
        ProcessCryptsetup(mapped_name, d)

SpecConfig == ConfigInit /\ [][ConfigNext]_vars

\* What open_crypt_device reads of a stored volume.
ScriptParameters(d) ==
    [retries |-> d.retries,
     key_file |-> "key_file" \in DOMAIN d,
     key_command |-> "key_command" \in DOMAIN d,
     plymouth_key_command |-> "plymouth_key_command" \in DOMAIN d,
     reset_command |-> "reset_command" \in DOMAIN d,
     header_file |-> IsSet(d, "header_file"),
     try_nokey |-> IF "try_nokey" \notin DOMAIN d THEN "absent"
                   ELSE IF d.try_nokey THEN "true" ELSE "false"]

\* ------------------------------------------- properties of the processing
Processed == cs_call.op = "cryptsetup"
Stored == Processed /\ cs_call.err = CsOk

\* The volume as given: the call's configuration merged over what was
\* stored under the name.
Given == _merge_cryptsetup(cs_call.cryptsetup, cs_call.name, cs_call.input)
StoredVolume == StoreGet(cryptsetup, cs_call.name)

\* The bound of the loop in the lines of open_crypt_device.
LoopBound(lines) ==
    lines[CHOOSE j \in DOMAIN lines : lines[j].op = "for"].n

ExpectedRetries ==
    IF "retries" \in DOMAIN Given THEN Given.retries ELSE cs_config.cryptsetup_retries

\* C11: a volume processed with retries unset is stored with the global
\* default cryptsetup_retries and the loop open_crypt_device makes for the
\* stored volume has that default as its bound; a volume with retries set
\* keeps its value, in the store and as the bound of the loop.
C11_RetriesRoundTrip ==
    Stored =>
        /\ StoredVolume.retries = ExpectedRetries
        /\ ~open_crypt_device_raises(ScriptParameters(StoredVolume)) =>
                \A settings \in Settings :
                    LoopBound(open_crypt_device(settings, cs_call.name,
                                                ScriptParameters(StoredVolume)))
                        = ExpectedRetries

\* A volume without retries was stored: its loop counts to the default.
C11_Witness ==
    /\ Stored
    /\ "retries" \notin DOMAIN Given
    /\ LoopBound(open_crypt_device([cryptsetup_prompt |-> FALSE,
                                    cryptsetup_autoretry |-> FALSE,
                                    plymouth |-> FALSE], cs_call.name,
                                   ScriptParameters(StoredVolume)))
            = cs_config.cryptsetup_retries

UnknownGiven == { parameter \in DOMAIN cs_call.input : parameter \notin CRYPTSETUP_PARAMETERS }

Known(d) == [k \in DOMAIN d \cap CRYPTSETUP_PARAMETERS |-> d[k]]

\* C17: a configuration with a key outside the known parameters does not
\* make _process_cryptsetup_multi fail: the key is logged, the call raises
\* only what it raises for the same configuration without that key, and
\* the merged entry is stored under mapped_name with the unknown key in it.
C17_UnknownKeyStored ==
    (Processed /\ UnknownGiven # {}) =>
        /\ cs_call.logged = UnknownGiven
        /\ cs_call.err.msg # "Invalid parameter"
        /\ cs_call.err =
              _process_cryptsetup_multi(cs_config, cs_call.cryptsetup, cs_call.key_types,
                                        cs_call.name, Known(cs_call.input)).err
        /\ cs_call.err = CsOk =>
              /\ cs_call.name \in StoreNames(cryptsetup)
              /\ \A parameter \in UnknownGiven :
                    /\ parameter \in DOMAIN StoredVolume
                    /\ StoredVolume[parameter] = cs_call.input[parameter]
              /\ \A parameter \in DOMAIN Given : parameter \in DOMAIN StoredVolume

\* A configuration with an unknown key was stored over an entry of the
\* same name.
C17_Witness ==
    /\ Stored /\ UnknownGiven # {}
    /\ cs_call.name \in StoreNames(cs_call.cryptsetup)
    /\ "discard" \in DOMAIN StoredVolume

KeyTypesSound(key_types, store) ==
    /\ \A key_type \in DOMAIN key_types : "key_command" \in DOMAIN key_types[key_type]
    /\ \A i \in DOMAIN store :
          "key_type" \in DOMAIN store[i].config
              => store[i].config.key_type \in DOMAIN key_types

\* The call would break the invariant of the key types.
Breaking ==
    \/ /\ cs_call.op = "key_type"
       /\ \/ /\ cs_call.key_type \notin DOMAIN cs_call.key_types
             /\ "key_command" \notin DOMAIN cs_call.input
          \/ \E parameter \in DOMAIN cs_call.input :
                parameter \notin CRYPTSETUP_KEY_PARAMETERS
    \/ /\ Processed
       /\ key_type_of(cs_config, Given) # ""
       /\ key_type_of(cs_config, Given) \notin DOMAIN cs_call.key_types

\* C19: after any calls of _process_cryptsetup_key_types_multi and
\* _process_cryptsetup_multi every key type has a key_command and every
\* stored volume with a key_type names a declared one; a call that would
\* break this raises, and a call that raises leaves cryptsetup_key_types
\* and cryptsetup as they were.
C19_KeyTypesDeclared ==
    /\ KeyTypesSound(cryptsetup_key_types, cryptsetup)
    /\ Breaking => cs_call.err # CsOk
    /\ cs_call.err # CsOk =>
          /\ cryptsetup = cs_call.cryptsetup
          /\ cryptsetup_key_types = cs_call.key_types

\* A volume of a declared key type is stored and a later call that names
\* an undeclared one raised.
C19_Witness ==
    /\ Breaking /\ Processed
    /\ cs_call.err = Err("ValueError", "Unknown key type")
    /\ cryptsetup # <<>>
    /\ \E i \in DOMAIN cryptsetup : "key_type" \in DOMAIN cryptsetup[i].config

\* ------------------------------------------- validation against the host
\* GeneratorHelpers._run: the command ends with 0 ("ok"), with another
\* code ("nonzero") or not in time ("timeout"); what is logged and
\* whether RuntimeError is raised.
_run(outcome, fail_silent, fail_hard) ==
    [outcome |-> outcome, fail_silent |-> fail_silent, fail_hard |-> fail_hard,
     logged |-> outcome = "nonzero" /\ ~fail_silent,
     raised |-> outcome = "timeout" \/ (outcome = "nonzero" /\ fail_hard)]

\* How cryptsetup luksDump ends on the header of the volume: on a
\* detached header file that is not there it exits non-zero.
luksDump(host, d) ==
    IF IsSet(d, "header_file") /\ d.header_file \notin host.files
    THEN "nonzero" ELSE host.luks_dump

\* _read_cryptsetup_header: the header is read (TRUE) unless one of the
\* two runs of cryptsetup luksDump raises, which is caught and logged, as
\* a warning for a detached header and as an error otherwise.
_read_cryptsetup_header(host, d) ==
    The({ [read |-> ~first.raised /\ ~second.raised,
           logged |-> IF ~first.raised /\ ~second.raised THEN {}
                      ELSE IF IsSet(d, "header_file")
                      THEN {"warning: Cannot read detached LUKS header for validation"}
                      ELSE {"error: Unable to read LUKS header"},
           runs |-> IF first.raised THEN <<first>> ELSE <<first, second>>]
          : first \in {_run(luksDump(host, d), TRUE, TRUE)},
            second \in {_run(luksDump(host, d), FALSE, TRUE)} })

\* _validate_cryptsetup_header
_validate_cryptsetup_header(globals, host, d) ==
    IF ~globals.cryptsetup_header_validation THEN [err |-> CsOk, runs |-> <<>>]
    ELSE IF IsFalse(d, "validate_header") THEN [err |-> CsOk, runs |-> <<>>]
    ELSE The({ [err |-> IF ~luks_info.read
                        THEN Err("ValidationError", "Unable to read LUKS header")
                        ELSE IF IsSet(d, "uuid") /\ host.luks_uuid # d.uuid
                        THEN Err("ValidationError", "LUKS UUID mismatch")
                        ELSE IF ~globals.argon2 /\ host.argon2id
                        THEN Err("ValidationError", "Missing libargon2.so")
                        ELSE CsOk,
                runs |-> luks_info.runs]
               : luks_info \in {_read_cryptsetup_header(host, d)} })

\* lines 280-284: the token of the volume against blkid's; the message of
\* the error reads blkid_info[token_type].
token_check_raises(blkid_info, d, token_type) ==
    IF token_type \in DOMAIN blkid_info /\ blkid_info[token_type] = d[token_type]
    THEN CsOk
    ELSE IF token_type \in DOMAIN blkid_info
    THEN Err("ValidationError", "LUKS token mismatch")
    ELSE Err("KeyError", token_type)

\* lines 278-287: the first token the volume declares, partuuid before
\* uuid, is compared and no other.

token_checks(blkid_info, d) ==
    IF IsSet(d, "partuuid") THEN token_check_raises(blkid_info, d, "partuuid")
    ELSE IF IsSet(d, "uuid") THEN token_check_raises(blkid_info, d, "uuid")
    ELSE Err("ValueError", "No UUID or PARTUUID set")

\* _validate_cryptsetup_device
_validate_cryptsetup_device(globals, host, store, mapped_name) ==
    IF ~globals.hostonly THEN [err |-> CsOk, runs |-> <<>>]
    ELSE IF host.dm = "absent"
    THEN [err |-> Err("AutodetectError", "No device mapper information"), runs |-> <<>>]
    ELSE IF host.dm # "CRYPT-LUKS"
    THEN [err |-> Err("ValueError", "Device is not a crypt device"), runs |-> <<>>]
    ELSE IF IsFalse(StoreGet(store, mapped_name), "validate")
    THEN [err |-> CsOk, runs |-> <<>>]
    ELSE IF token_checks(host.blkid, StoreGet(store, mapped_name)) # CsOk
    THEN [err |-> token_checks(host.blkid, StoreGet(store, mapped_name)), runs |-> <<>>]
    ELSE _validate_cryptsetup_header(globals, host, StoreGet(store, mapped_name))

\* _validate_crypysetup_key, called with validation on
_validate_crypysetup_key(globals, host, d) ==
    IF IsSet(d, "include_key") THEN CsOk
    ELSE IF IsFalse(d, "validate_key") THEN CsOk
    ELSE IF globals.cryptsetup_keyfile_validation /\ d.key_file \notin host.files
    THEN Err("FileNotFoundError", "Key file not found")
    ELSE CsOk

\* _validate_cryptsetup_config that lets a uuid go with a detached header.
_validate_cryptsetup_config_uuid_with_header(globals, host, store, mapped_name) ==
    IF ~globals.validate THEN CsOk
    ELSE IF mapped_name \notin StoreNames(store)
    THEN Err("KeyError", "No cryptsetup configuration found")
    ELSE The({
        IF \E parameter \in DOMAIN d : parameter \notin CRYPTSETUP_PARAMETERS
        THEN Err("ValueError", "Invalid parameter")
        ELSE IF ~IsSet(d, "header_file")
                /\ ~IsSet(d, "partuuid") /\ ~IsSet(d, "uuid") /\ ~IsSet(d, "path")
                /\ ~globals.autodetect_root_luks
        THEN Err("ValidationError", "A device uuid, partuuid, or path must be specified")
        ELSE IF IsSet(d, "key_file") THEN _validate_crypysetup_key(globals, host, d)
        ELSE CsOk
        : d \in {StoreGet(store, mapped_name)} })

\* _validate_cryptsetup_config
_validate_cryptsetup_config(globals, host, store, mapped_name) ==
    IF ~globals.validate THEN CsOk
    ELSE IF mapped_name \notin StoreNames(store)
    THEN Err("KeyError", "No cryptsetup configuration found")
    ELSE The({
        IF \E parameter \in DOMAIN d : parameter \notin CRYPTSETUP_PARAMETERS
        THEN Err("ValueError", "Invalid parameter")
        ELSE IF IsSet(d, "header_file")
                /\ ~IsSet(d, "partuuid") /\ ~IsSet(d, "path") /\ IsSet(d, "uuid")
        THEN Err("ValueError", "A UUID cannot be used with a detached header")
        ELSE IF ~IsSet(d, "header_file")
                /\ ~IsSet(d, "partuuid") /\ ~IsSet(d, "uuid") /\ ~IsSet(d, "path")
                /\ ~globals.autodetect_root_luks
        THEN Err("ValidationError", "A device uuid, partuuid, or path must be specified")
        ELSE IF IsSet(d, "key_file") THEN _validate_crypysetup_key(globals, host, d)
        ELSE CsOk
        : d \in {StoreGet(store, mapped_name)} })

\* _validate_luks_config: the device, then the configuration.
_validate_luks_config(globals, host, store, mapped_name) ==
    IF ~globals.validate THEN [err |-> CsOk, runs |-> <<>>]
    ELSE The({ IF device.err # CsOk THEN device
               ELSE [err |-> _validate_cryptsetup_config(globals, host, store, mapped_name),
                     runs |-> device.runs]
               : device \in {_validate_cryptsetup_device(globals, host, store, mapped_name)} })

\* self["exports"]["CRYPTSETUP_SOURCE_name"], ["CRYPTSETUP_TOKEN_name"]
ExportKey(variable, mapped_name) == <<variable, mapped_name>>

\* export_crypt_sources, lines 390-408, for a volume that was validated,
\* that goes on to the token when a path was exported.
export_volume_no_continue(globals, exported, mapped_name, parameters) ==
    The({ IF IsSet(parameters, "partuuid")
          THEN [exports |-> Merge(sourced, Entry(ExportKey("CRYPTSETUP_TOKEN", mapped_name),
                                                 <<"PARTUUID", parameters.partuuid>>)),
                err |-> CsOk]
          ELSE IF IsSet(parameters, "uuid")
          THEN [exports |-> Merge(sourced, Entry(ExportKey("CRYPTSETUP_TOKEN", mapped_name),
                                                 <<"UUID", parameters.uuid>>)),
                err |-> CsOk]
          ELSE [exports |-> sourced,
                err |-> Err("ValidationError", "A partuuid or uuid must be specified")]
          : sourced \in {IF IsSet(parameters, "path")
                         THEN Merge(exported,
                                    Entry(ExportKey("CRYPTSETUP_SOURCE", mapped_name),
                                          <<"PATH", parameters.path>>))
                         ELSE exported} })

\* export_crypt_sources, lines 390-408, for a volume that was validated.
export_volume(globals, exported, mapped_name, parameters) ==
    IF IsSet(parameters, "path")
    THEN IF ~globals.validate
         THEN [exports |-> Merge(exported,
                                 Entry(ExportKey("CRYPTSETUP_SOURCE", mapped_name),
                                       <<"PATH", parameters.path>>)),
               err |-> CsOk]
         ELSE [exports |-> exported,
               err |-> Err("ValidationError", "Validation must be disabled to use device paths")]
    ELSE IF IsSet(parameters, "partuuid")
    THEN [exports |-> Merge(exported, Entry(ExportKey("CRYPTSETUP_TOKEN", mapped_name),
                                            <<"PARTUUID", parameters.partuuid>>)),
          err |-> CsOk]
    ELSE IF IsSet(parameters, "uuid")
    THEN [exports |-> Merge(exported, Entry(ExportKey("CRYPTSETUP_TOKEN", mapped_name),
                                            <<"UUID", parameters.uuid>>)),
          err |-> CsOk]
    ELSE [exports |-> exported,
          err |-> Err("ValidationError", "A partuuid or uuid must be specified")]

\* export_crypt_sources: the volumes in their order, each validated and
\* then exported, up to the first that raises; raised_at is its place.
RECURSIVE export_crypt_sources_from(_, _, _, _, _, _)
export_crypt_sources_from(globals, host, store, i, exported, runs) ==
    IF i > Len(store)
    THEN [exports |-> exported, err |-> CsOk, runs |-> runs, raised_at |-> 0]
    ELSE The({
        IF valid.err # CsOk
        THEN [exports |-> exported, err |-> valid.err, runs |-> runs \o valid.runs,
              raised_at |-> i]
        ELSE The({
            IF volume.err # CsOk
            THEN [exports |-> exported, err |-> volume.err, runs |-> runs \o valid.runs,
                  raised_at |-> i]
            ELSE export_crypt_sources_from(globals, host, store, i + 1,
                                           volume.exports, runs \o valid.runs)
            : volume \in {export_volume(globals, exported, store[i].name,
                                        store[i].config)} })
        : valid \in {_validate_luks_config(globals, host, store, store[i].name)} })

export_crypt_sources(globals, host, store, exported) ==
    export_crypt_sources_from(globals, host, store, 1, exported, <<>>)

\* ------------------------------------------- validating and exporting
\* The settings of a run of the validation.
ValidateGlobals ==
    [validate : BOOLEAN, hostonly : BOOLEAN, autodetect_root_luks : BOOLEAN,
     cryptsetup_header_validation : BOOLEAN, cryptsetup_keyfile_validation : {TRUE},
     argon2 : {TRUE}, cryptsetup_key_type : {""},
     cryptsetup_retries : {MaxRetries + 1}]

\* What the host shows for the mapped device: a LUKS mapping, another
\* mapping or none; the tokens blkid has for the device under it, a whole
\* disk having no partuuid; how cryptsetup luksDump ends and the uuid in
\* the header it reads; the files there are.
Hosts ==
    { host \in [dm : {"CRYPT-LUKS", "LVM", "absent"},
                blkid : {[partuuid |-> "P1", uuid |-> "U1"], [uuid |-> "U1"]},
                luks_dump : {"ok", "nonzero", "timeout"},
                luks_uuid : {"U1", "U2"},
                argon2id : {FALSE},
                files : {{"/boot/key"}, {"/boot/key", "/boot/header"}}] :
        host.luks_dump # "ok" => host.luks_uuid = "U1" }

\* The host where every check can pass, and where the header is not read.
PlainHosts ==
    { host \in Hosts :
        /\ host.dm = "CRYPT-LUKS" /\ "partuuid" \in DOMAIN host.blkid
        /\ host.luks_uuid = "U1" /\ host.luks_dump # "nonzero"
        /\ "/boot/header" \in host.files }

\* How a volume names its device: by tokens that are blkid's (P1, U1) or
\* not (P2, U2), by a path, by nothing.
Sources ==
    {EmptyDict,
     [partuuid |-> "P1"], [partuuid |-> "P2"], [uuid |-> "U1"], [uuid |-> "U2"],
     [partuuid |-> "P1", uuid |-> "U1"], [partuuid |-> "P1", uuid |-> "U2"],
     [partuuid |-> "P2", uuid |-> "U1"],
     [path |-> "/dev/sda2"], [path |-> "/dev/sda2", partuuid |-> "P1"],
     [path |-> "/dev/sda2", uuid |-> "U1"]}

Headers == {EmptyDict, [header_file |-> "/boot/header"]}

\* What else a volume carries: a key file that is there or not, each
\* flag, a parameter the module does not know.
Extras ==
    {EmptyDict,
     [key_file |-> "/boot/key"], [key_file |-> "/missing/key"],
     [key_file |-> "/missing/key", validate_key |-> FALSE],
     [key_file |-> "/missing/key", include_key |-> TRUE],
     [header_file |-> "/boot/header", include_header |-> TRUE],
     [validate |-> FALSE], [validate |-> TRUE], [validate_header |-> FALSE],
     [try_nokey |-> TRUE],
     UnknownParameter}

\* The volumes of a run, as _process_cryptsetup_multi stores them: the
\* volume 1, alone or after a volume 2 that names its partuuid.
StoreOf(globals, d, second) ==
    _process_cryptsetup_multi(globals,
        IF second
        THEN _process_cryptsetup_multi(globals, <<>>, EmptyDict, 2,
                                       [partuuid |-> "P1"]).cryptsetup
        ELSE <<>>,
        EmptyDict, 1, d).cryptsetup

ValidateStart(globals, host, d, second) ==
    /\ GenIdle /\ FuncIdle /\ ShIdle
    /\ cs_config = globals
    /\ cs_host = host
    /\ cryptsetup = StoreOf(globals, d, second)
    /\ cryptsetup_key_types = EmptyDict
    /\ exports = EmptyDict
    /\ cs_call = NoCsCall
    /\ cs_calls = 0

\* Every host with every source of a volume, and every volume on the hosts
\* where the checks of the device pass.
ValidateInit ==
    \E globals \in ValidateGlobals, second \in BOOLEAN :
        \/ \E host \in Hosts, source \in Sources, header \in Headers :
              ValidateStart(globals, host, Merge(source, header), second)
        \/ \E host \in PlainHosts, source \in Sources, header \in Headers,
              extra \in Extras :
              ValidateStart(globals, host, Merge(Merge(source, header), extra), second)

\* _validate_cryptsetup_config(self, mapped_name)
ValidateCryptsetupConfig(mapped_name) ==
    /\ cs_calls = 0
    /\ mapped_name \in StoreNames(cryptsetup)
    /\ cs_call' = [NoCsCall EXCEPT !.op = "validate_config", !.name = mapped_name,
                      !.cryptsetup = cryptsetup,
                      !.err = _validate_cryptsetup_config(cs_config, cs_host,
                                                          cryptsetup, mapped_name)]
    /\ cs_calls' = cs_calls + 1
    /\ UNCHANGED <<cs_config, cs_host, cryptsetup, cryptsetup_key_types, exports>>
    /\ UNCHANGED <<genVars, funcVars, shVars>>

\* _validate_cryptsetup_device(self, mapped_name)
ValidateCryptsetupDevice(mapped_name) ==
    /\ cs_calls = 0
    /\ mapped_name \in StoreNames(cryptsetup)
    /\ \E r \in {_validate_cryptsetup_device(cs_config, cs_host, cryptsetup, mapped_name)} :
        cs_call' = [NoCsCall EXCEPT !.op = "validate_device", !.name = mapped_name,
                       !.cryptsetup = cryptsetup, !.runs = r.runs, !.err = r.err]
    /\ cs_calls' = cs_calls + 1
    /\ UNCHANGED <<cs_config, cs_host, cryptsetup, cryptsetup_key_types, exports>>
    /\ UNCHANGED <<genVars, funcVars, shVars>>

\* _validate_luks_config(self, mapped_name)
ValidateLuksConfig(mapped_name) ==
    /\ cs_calls = 0
    /\ mapped_name \in StoreNames(cryptsetup)
    /\ \E r \in {_validate_luks_config(cs_config, cs_host, cryptsetup, mapped_name)} :
        cs_call' = [NoCsCall EXCEPT !.op = "validate_luks", !.name = mapped_name,
                       !.cryptsetup = cryptsetup, !.runs = r.runs, !.err = r.err]
    /\ cs_calls' = cs_calls + 1
    /\ UNCHANGED <<cs_config, cs_host, cryptsetup, cryptsetup_key_types, exports>>
    /\ UNCHANGED <<genVars, funcVars, shVars>>

\* export_crypt_sources(self)
ExportCryptSources ==
    /\ cs_calls = 0
    /\ \E r \in {export_crypt_sources(cs_config, cs_host, cryptsetup, exports)} :
        /\ exports' = r.exports
        /\ cs_call' = [NoCsCall EXCEPT !.op = "export", !.cryptsetup = cryptsetup,
                          !.exports = exports, !.runs = r.runs,
                          !.raised_at = r.raised_at, !.err = r.err]
    /\ cs_calls' = cs_calls + 1
    /\ UNCHANGED <<cs_config, cs_host, cryptsetup, cryptsetup_key_types>>
    /\ UNCHANGED <<genVars, funcVars, shVars>>

ValidateNext ==
    \/ \E mapped_name \in MappedNames : ValidateCryptsetupConfig(mapped_name)
    \/ \E mapped_name \in MappedNames : ValidateCryptsetupDevice(mapped_name)
    \/ \E mapped_name \in MappedNames : ValidateLuksConfig(mapped_name)
    \/ ExportCryptSources

SpecValidate == ValidateInit /\ [][ValidateNext]_vars

\* ------------------------------------------- properties of the validation
Called(op) == cs_call.op = op
CalledVolume == StoreGet(cryptsetup, cs_call.name)

\* uuid and header_file set, neither partuuid nor path.
UuidWithHeader(d) ==
    /\ IsSet(d, "uuid") /\ IsSet(d, "header_file")
    /\ ~IsSet(d, "partuuid") /\ ~IsSet(d, "path")

TokenKey(i) == ExportKey("CRYPTSETUP_TOKEN", cryptsetup[i].name)
SourceKey(i) == ExportKey("CRYPTSETUP_SOURCE", cryptsetup[i].name)

\* C12: with validation enabled, validating a volume with uuid and
\* header_file set and neither partuuid nor path raises, so that
\* export_crypt_sources exports no token for such a volume.
C12_UuidWithHeaderRejected ==
    cs_config.validate =>
        /\ ((Called("validate_config") \/ Called("validate_luks"))
                /\ UuidWithHeader(CalledVolume)) => cs_call.err # CsOk
        /\ Called("export") =>
              \A i \in DOMAIN cryptsetup :
                  UuidWithHeader(cryptsetup[i].config) => TokenKey(i) \notin DOMAIN exports

\* export_crypt_sources exported the first volume and stopped at the
\* second one for its uuid with a detached header.
C12_Witness ==
    /\ Called("export") /\ cs_config.validate
    /\ cs_call.raised_at = 2
    /\ UuidWithHeader(cryptsetup[2].config)
    /\ cs_call.err = Err("ValueError", "A UUID cannot be used with a detached header")
    /\ TokenKey(1) \in DOMAIN exports

\* A token the volume declares is not the one blkid has for the device.
Mismatch(d) ==
    \E token_type \in {"partuuid", "uuid"} :
        /\ IsSet(d, token_type)
        /\ \/ token_type \notin DOMAIN cs_host.blkid
           \/ cs_host.blkid[token_type] # d[token_type]

\* C15: with hostonly and validation enabled _validate_cryptsetup_device
\* raises ValidationError whenever a declared partuuid or uuid is not the
\* token of the device under the mapping, raises when the mapping is not
\* CRYPT-LUKS, and returns normally only when every declared token is the
\* device's.
C15_DeviceTokensChecked ==
    (/\ Called("validate_device")
     /\ cs_config.hostonly /\ cs_config.validate
     /\ ~IsFalse(CalledVolume, "validate")) =>
        /\ cs_host.dm # "CRYPT-LUKS" => cs_call.err # CsOk
        /\ (cs_host.dm = "CRYPT-LUKS" /\ Mismatch(CalledVolume))
                => cs_call.err.class = "ValidationError"
        /\ cs_call.err = CsOk => ~Mismatch(CalledVolume)

\* C16: every flag of a volume (validate, validate_key, validate_header,
\* include_key, include_header, try_nokey) is a known parameter: a volume
\* with any of them, validate = false among them, passes the parameter
\* check of _validate_cryptsetup_config, and a key outside the known set
\* makes the check raise.
C16_FlagsAreParameters ==
    (Called("validate_config") /\ cs_config.validate) =>
        /\ DOMAIN CalledVolume \subseteq CRYPTSETUP_PARAMETERS \cup FlagKeys
                => cs_call.err # Err("ValueError", "Invalid parameter")
        /\ ~(DOMAIN CalledVolume \subseteq CRYPTSETUP_PARAMETERS \cup FlagKeys)
                => cs_call.err = Err("ValueError", "Invalid parameter")

\* export_crypt_sources came to the volume i: no volume before it raised.
Reached(i) == Called("export") /\ (cs_call.raised_at = 0 \/ i <= cs_call.raised_at)
RaisedAt(i) == cs_call.raised_at = i
Accepted(i) ==
    _validate_luks_config(cs_config, cs_host, cryptsetup, cryptsetup[i].name).err = CsOk

NothingExported(i) ==
    TokenKey(i) \notin DOMAIN exports /\ SourceKey(i) \notin DOMAIN exports

PreferredToken(d) ==
    IF IsSet(d, "partuuid") THEN <<"PARTUUID", d.partuuid>> ELSE <<"UUID", d.uuid>>

\* What holds of a volume with a path whatever the validation says, and
\* of a volume with a token that the validation accepts.
ExportedAsDeclared(i) ==
    /\ (IsSet(cryptsetup[i].config, "path") /\ ~cs_config.validate) =>
            /\ ~RaisedAt(i)
            /\ SourceKey(i) \in DOMAIN exports
            /\ exports[SourceKey(i)] = <<"PATH", cryptsetup[i].config.path>>
            /\ TokenKey(i) \notin DOMAIN exports
    /\ (/\ ~IsSet(cryptsetup[i].config, "path")
        /\ IsSet(cryptsetup[i].config, "partuuid") \/ IsSet(cryptsetup[i].config, "uuid")
        /\ Accepted(i)) =>
            /\ ~RaisedAt(i)
            /\ TokenKey(i) \in DOMAIN exports
            /\ exports[TokenKey(i)] = PreferredToken(cryptsetup[i].config)
            /\ SourceKey(i) \notin DOMAIN exports

\* The volume must be refused: a path with validation enabled, or neither
\* a path nor a token.
Refused(i) ==
    \/ IsSet(cryptsetup[i].config, "path") /\ cs_config.validate
    \/ /\ ~IsSet(cryptsetup[i].config, "path")
       /\ ~IsSet(cryptsetup[i].config, "partuuid")
       /\ ~IsSet(cryptsetup[i].config, "uuid")

\* The volume has nothing but its source, and the host shows a LUKS
\* mapping over a device with both tokens and a header that is read.
PlainCase(i) ==
    /\ DOMAIN cryptsetup[i].config \subseteq {"path", "partuuid", "uuid", "retries"}
    /\ cs_host.dm = "CRYPT-LUKS" /\ cs_host.luks_dump = "ok"
    /\ "partuuid" \in DOMAIN cs_host.blkid

\* C18 as claimed: export_crypt_sources raises ValidationError for a
\* volume with a path when validation is enabled and for a volume with
\* neither path nor token; with validation disabled it exports the path
\* as CRYPTSETUP_SOURCE and no token; without path it exports one
\* CRYPTSETUP_TOKEN, partuuid before uuid.
C18_AsClaimed ==
    \A i \in DOMAIN cryptsetup :
        (Reached(i) /\ PlainCase(i)) =>
            /\ ExportedAsDeclared(i)
            /\ Refused(i) => (RaisedAt(i) /\ cs_call.err.class = "ValidationError")

\* C18, amended: a refused volume makes export_crypt_sources raise and
\* nothing is exported for it; the error is ValidationError when
\* _validate_luks_config accepted the volume, and otherwise the error
\* _validate_luks_config raised.
C18_PathOnlyUnvalidated ==
    \A i \in DOMAIN cryptsetup :
        Reached(i) =>
            /\ ExportedAsDeclared(i)
            /\ Refused(i) =>
                  /\ RaisedAt(i)
                  /\ NothingExported(i)
                  /\ Accepted(i) => cs_call.err.class = "ValidationError"
                  /\ ~Accepted(i) =>
                        cs_call.err = _validate_luks_config(cs_config, cs_host, cryptsetup,
                                                            cryptsetup[i].name).err

\* With validation disabled the token of volume 2 and the path of volume 1,
\* which also has a partuuid, were exported.
C18_Witness ==
    /\ Called("export") /\ ~cs_config.validate /\ cs_call.err = CsOk
    /\ Len(cryptsetup) = 2
    /\ TokenKey(1) \in DOMAIN exports
    /\ IsSet(cryptsetup[2].config, "path") /\ IsSet(cryptsetup[2].config, "partuuid")
    /\ SourceKey(2) \in DOMAIN exports /\ TokenKey(2) \notin DOMAIN exports

\* ------------------------------------------- running commands
Outcomes == {"ok", "nonzero", "timeout"}

\* The host decides how each command of the run ends.
RunInit ==
    /\ GenIdle /\ FuncIdle /\ ShIdle
    /\ cs_config = [_cryptsetup_backend |-> ""]
    /\ cs_host \in { [commands |-> commands] :
                        commands \in SeqsUpTo(Outcomes, MaxCsCalls) \ {<<>>} }
    /\ cryptsetup = <<>>
    /\ cryptsetup_key_types = EmptyDict
    /\ exports = EmptyDict
    /\ cs_call = NoCsCall
    /\ cs_calls = 0

\* self._run(args, fail_silent=fail_silent, fail_hard=fail_hard)
Run(fail_silent, fail_hard) ==
    /\ cs_host.commands # <<>>
    /\ \E r \in {_run(Head(cs_host.commands), fail_silent, fail_hard)} :
        cs_call' = [NoCsCall EXCEPT !.op = "run", !.runs = <<r>>,
                       !.err = IF ~r.raised THEN CsOk
                               ELSE IF r.outcome = "timeout"
                               THEN Err("RuntimeError", "Command timed out")
                               ELSE Err("RuntimeError", "Failed to run command")]
    /\ cs_host' = [cs_host EXCEPT !.commands = Tail(cs_host.commands)]
    /\ cs_calls' = cs_calls + 1
    /\ UNCHANGED <<cs_config, cryptsetup, cryptsetup_key_types, exports>>
    /\ UNCHANGED <<genVars, funcVars, shVars>>

\* detect_cryptsetup_backend: run unless the backend is set; RuntimeError
\* is caught and logged; the line of the backend is in the output (found)
\* or not.
DetectCryptsetupBackend(found) ==
    /\ cs_host.commands # <<>>
    /\ cs_config._cryptsetup_backend = ""
    /\ \E r \in {_run(Head(cs_host.commands), TRUE, FALSE)} :
        /\ cs_call' = [NoCsCall EXCEPT !.op = "detect_backend", !.runs = <<r>>,
                          !.logged = IF r.raised THEN {"Unable to determine cryptsetup backend"}
                                     ELSE {}]
        /\ cs_config' = IF ~r.raised /\ found
                        THEN [cs_config EXCEPT !._cryptsetup_backend = "openssl"]
                        ELSE cs_config
    /\ cs_host' = [cs_host EXCEPT !.commands = Tail(cs_host.commands)]
    /\ cs_calls' = cs_calls + 1
    /\ UNCHANGED <<cryptsetup, cryptsetup_key_types, exports>>
    /\ UNCHANGED <<genVars, funcVars, shVars>>

RunNext ==
    \/ \E fail_silent \in BOOLEAN, fail_hard \in BOOLEAN : Run(fail_silent, fail_hard)
    \/ \E found \in BOOLEAN : DetectCryptsetupBackend(found)

SpecRun == RunInit /\ [][RunNext]_vars

\* C20: for _run a timeout is a failure like a non-zero exit: either
\* raises when fail_hard is set, and neither raises when the caller
\* passed fail_hard=False.
C20_TimeoutIsFailure ==
    \A k \in DOMAIN cs_call.runs :
        /\ (cs_call.runs[k].outcome # "ok" /\ cs_call.runs[k].fail_hard)
                => cs_call.runs[k].raised
        /\ ~cs_call.runs[k].fail_hard => ~cs_call.runs[k].raised

\* ------------------------------------------- the shape of the script
\* The one volume of the configuration.
TheVolume == crypt.volumes[1]
Generated == script # <<>>

\* The open attempts of the script: the tests that run cryptsetup open.
OpenBranches(lines) ==
    { j \in DOMAIN lines : lines[j].op \in {"if", "elif"} /\ lines[j].arg \in OpenMethods }

ForLines(lines) == { j \in DOMAIN lines : lines[j].op = "for" }

\* The block that tries again without keys.
FallbackLines(lines) == { j \in DOMAIN lines : lines[j].arg = "failed_using_keys" }

\* C13: the script for a volume with only key_file set (no key_command, no
\* try_nokey) has exactly one open attempt and no block that tries again
\* without keys.
C13_OneOpenBranch ==
    (/\ Generated
     /\ TheVolume.key_file
     /\ ~TheVolume.key_command /\ ~TheVolume.plymouth_key_command
     /\ ~TheVolume.reset_command
     /\ TheVolume.try_nokey = "absent") =>
        /\ Cardinality(OpenBranches(script)) = 1
        /\ FallbackLines(script) = {}

TryNokey == Generated /\ TheVolume.try_nokey = "true" /\ TheVolume.key_file

\* The first and the last line of the loop that begins at the for line j.
KeyedFor == CHOOSE j \in ForLines(script) : \A k \in ForLines(script) : j <= k
FallbackFor == CHOOSE j \in ForLines(script) : \A k \in ForLines(script) : k <= j
FallbackBegin == CHOOSE j \in FallbackLines(script) : TRUE

LoopLines(j) == SubSeq(script, j, LoopEnd(script, j))

OpsOf(lines) == { lines[j].op : j \in DOMAIN lines }
ArgsOf(lines) == { lines[j].arg : j \in DOMAIN lines }

\* C14: the script for a volume with try_nokey and key_file has two loops,
\* the loop with the keys and then a loop made from the same parameters
\* without key_file, key_command and reset_command; the second loop runs
\* only when the volume is still not open after the first one ended.
C14_FallbackAfterKeys ==
    TryNokey =>
        /\ Cardinality(ForLines(script)) = 2
        /\ Cardinality(FallbackLines(script)) = 1
        /\ LoopEnd(script, KeyedFor) < FallbackBegin /\ FallbackBegin < FallbackFor
        /\ script[FallbackFor].n = script[KeyedFor].n
        /\ "open_key_file" \in ArgsOf(LoopLines(KeyedFor))
        /\ TheVolume.key_command => "key_command" \in OpsOf(LoopLines(KeyedFor))
        /\ LoopLines(FallbackFor) =
              SubSeq(open_crypt_device(crypt.settings, 1, new_params(TheVolume)),
                     IF crypt.settings.cryptsetup_prompt THEN 2 ELSE 1,
                     Len(open_crypt_device(crypt.settings, 1, new_params(TheVolume))))
        /\ "open_key_file" \notin ArgsOf(LoopLines(FallbackFor))
        /\ "open_interactive" \in ArgsOf(LoopLines(FallbackFor))
        /\ {"key_command", "reset_command"} \cap OpsOf(LoopLines(FallbackFor)) = {}
        /\ (Running /\ sh_pc >= FallbackBegin /\ sh_pc <= FallbackFor) => 1 \notin sh_open
        /\ (Running /\ sh_pc > FallbackFor /\ sh_pc <= LoopEnd(script, FallbackFor)
                /\ 1 \in sh_open) => sh_loop.opened

\* The loop with the keys ended with the volume closed and the loop
\* without keys opened it.
C14_Witness ==
    /\ TryNokey /\ Running
    /\ sh_pc > FallbackFor /\ sh_pc <= LoopEnd(script, FallbackFor)
    /\ sh_loop.opened /\ 1 \in sh_open

\* ------------------------------------------------- main.py, from its start
\* What load_config raises in __init__: open fails on a missing file, and a
\* required parameter (build_dir, out_dir, clean, old_count) that is None
\* raises KeyError. Nothing in __init__ catches what verify_deps and
\* verify_mask raise either.
ConstructionErrors ==
    {"FileNotFoundError: config file",
     "KeyError: Required parameter not found in config"}

\* main.py before generator = InitramfsGenerator(**kwargs).
MainInit ==
    /\ \E cfg \in Configs : config = cfg
    /\ gen = <<>>
    /\ pc = "start"
    /\ included_functions = <<>>
    /\ init = <<>>
    /\ custom_init = Unbound
    /\ files = [n \in FileNames |-> None]
    /\ error = NoError
    /\ level = "none"
    /\ runlevel = None
    /\ dumped = FALSE
    /\ FuncIdle /\ ShIdle /\ CsIdle

\* main.py line 25, generator = InitramfsGenerator(**kwargs): the statement
\* is before the try, so what __init__ raises ends the program.
ConstructGenerator ==
    /\ pc = "start"
    /\ \/ \E returns \in ReturnMaps(config) :
            /\ gen' = Construct(config, returns)
            /\ pc' = "constructed"
            /\ error' = error
       \/ \E err \in ConstructionErrors :
            /\ gen' = gen
            /\ pc' = "uncaught"
            /\ error' = err
    /\ UNCHANGED <<config, included_functions, init, custom_init, files,
                   level, runlevel, dumped>>
    /\ UNCHANGED <<funcVars, shVars, csVars>>

MainNext ==
    \/ ConstructGenerator
    \/ GenNext

SpecMain == MainInit /\ [][MainNext]_vars

\* C21: when a step of the build started from main.py raised (loading the
\* configuration, verifying dependencies or masks, building the structure,
\* generating the init), the program ends with the error reported by its
\* handler and the configuration dumped.
C21_FailureDumped ==
    (pc \in {"exit", "uncaught"} /\ error # NoError) => dumped

\* ------------------------------------------- backend and KDF detection
\* What the crypto backend line of cryptsetup --debug luksDump names;
\* "" when the output has no such line.
Backends == {"openssl", "gcrypt", "nettle", ""}

Libraries == {"libcrypto.so", "libgcrypt.so", "libargon2.so"}

\* detect_cryptsetup_backend, lines 292-311: skipped when the backend is
\* set (@unset); the RuntimeError of _run is caught and logged.
detect_cryptsetup_backend(globals, host) ==
    IF globals._cryptsetup_backend # ""
    THEN [config |-> globals, logged |-> {}, runs |-> <<>>, err |-> CsOk]
    ELSE The({ [config |-> IF ~r.raised /\ host.backend # ""
                           THEN [globals EXCEPT !._cryptsetup_backend = host.backend]
                           ELSE globals,
                logged |-> IF r.raised
                           THEN {"Unable to determine cryptsetup backend"} ELSE {},
                runs |-> <<r>>,
                err |-> CsOk]
               : r \in {_run(host.luks_dump, TRUE, FALSE)} })

\* What _run raised, as the exception.
RunError(r) ==
    IF r.outcome = "timeout" THEN Err("RuntimeError", "Command timed out")
    ELSE Err("RuntimeError", "Failed to run command")

\* The end of detect_argon2, lines 345-350: libargon2 among the
\* dependencies sets argon2; an unset argon2 is logged.
argon2_from_deps(globals, host, logged, runs) ==
    The({ [config |-> [globals EXCEPT !.argon2 = argon2],
           logged |-> logged \cup
                (IF argon2 THEN {} ELSE {"Cryptsetup is not linked against libargon2."}),
           runs |-> runs,
           err |-> CsOk]
          : argon2 \in {globals.argon2 \/ "libargon2.so" \in host.deps} })

\* detect_argon2, lines 321-350: skipped when argon2 is set (@unset); the
\* queries of openssl and of libgcrypt-config are _run with fail_hard left
\* at its default, outside of any try.
detect_argon2(globals, host) ==
    IF globals.argon2
    THEN [config |-> globals, logged |-> {}, runs |-> <<>>, err |-> CsOk]
    ELSE IF globals._cryptsetup_backend = "openssl"
    THEN The({ IF r.raised
               THEN [config |-> globals, logged |-> {}, runs |-> <<r>>, err |-> RunError(r)]
               ELSE argon2_from_deps(
                        [globals EXCEPT !.argon2 = host.kdf_argon2id], host,
                        IF "libcrypto.so" \in host.deps THEN {}
                        ELSE {"libcrypto.so is not in dependencies."},
                        <<r>>)
               : r \in {_run(host.query, FALSE, TRUE)} })
    ELSE IF globals._cryptsetup_backend = "gcrypt"
    THEN The({ IF r.raised
               THEN [config |-> globals, logged |-> {}, runs |-> <<r>>, err |-> RunError(r)]
               ELSE argon2_from_deps(
                        [globals EXCEPT !.argon2 = host.gcrypt_1_11], host,
                        (IF "libgcrypt.so" \in host.deps THEN {}
                         ELSE {"libgcrypt.so is not in dependencies."})
                        \cup (IF host.gcrypt_1_11 THEN {}
                              ELSE {"Gcrypt version may not support argon2id."}),
                        <<r>>)
               : r \in {_run(host.query, FALSE, TRUE)} })
    ELSE argon2_from_deps(globals, host, {"Unable to determine cryptsetup backend."}, <<>>)

\* The build host: how luksDump and the capability query end, what they
\* show, and the libraries cryptsetup is linked against.
DetectHosts ==
    [luks_dump : Outcomes, backend : Backends, query : Outcomes,
     kdf_argon2id : BOOLEAN, gcrypt_1_11 : BOOLEAN, deps : SUBSET Libraries]

DetectInit ==
    /\ GenIdle /\ FuncIdle /\ ShIdle
    /\ cs_config \in [_cryptsetup_backend : {""}, argon2 : BOOLEAN]
    /\ cs_host \in DetectHosts
    /\ cryptsetup = <<>>
    /\ cryptsetup_key_types = EmptyDict
    /\ exports = EmptyDict
    /\ cs_call = NoCsCall
    /\ cs_calls = 0

Detect(op, r) ==
    /\ cs_calls < MaxCsCalls
    /\ cs_config' = r.config
    /\ cs_call' = [NoCsCall EXCEPT !.op = op, !.logged = r.logged,
                                   !.runs = r.runs, !.err = r.err]
    /\ cs_calls' = cs_calls + 1
    /\ UNCHANGED <<cs_host, cryptsetup, cryptsetup_key_types, exports>>
    /\ UNCHANGED <<genVars, funcVars, shVars>>

DetectBackend ==
    \E r \in {detect_cryptsetup_backend(cs_config, cs_host)} :
        Detect("detect_cryptsetup_backend", r)

DetectArgon2 ==
    \E r \in {detect_argon2(cs_config, cs_host)} : Detect("detect_argon2", r)

DetectNext ==
    \/ DetectBackend
    \/ DetectArgon2

SpecDetect == DetectInit /\ [][DetectNext]_vars

\* C22: whatever backend was detected and however the capability queries
\* end, detect_cryptsetup_backend and detect_argon2 do not raise: when
\* support is not confirmed they log.
C22_DetectionSoft ==
    cs_call.op \in {"detect_cryptsetup_backend", "detect_argon2"} =>
        cs_call.err = CsOk

\* ------------------------------------------- the end of an iteration
\* The shell is at the done of the loop: an iteration ended and the volume
\* was not opened in it.
IterationFailed == Running /\ Current.op = "done"

\* C23: with cryptsetup_autoretry false, an iteration of the unlock loop
\* that ends without the volume opened has shown the warning with the
\* number of the attempt and has waited for the user to press enter, also
\* when the key command of the iteration failed.
C23_ConfirmBeforeRetry ==
    (IterationFailed /\ ~crypt.settings.cryptsetup_autoretry) =>
        /\ sh_loop.warned_at = sh_loop.iters
        /\ sh_loop.warned = sh_i
        /\ sh_loop.confirmed_at = sh_loop.iters

\* ------------------------------------------- a detached header not there
\* The header file of the volume is not on the host, or luksDump does not
\* read it.
HeaderUnreadable(d) ==
    /\ IsSet(d, "header_file")
    /\ d.header_file \notin cs_host.files \/ cs_host.luks_dump # "ok"

\* C24: with hostonly and validation enabled, _validate_luks_config of a
\* volume whose detached header file is not on the build host, or cannot
\* be read there, does not raise for it: the header that is not read is
\* only logged.
C24_MissingHeaderWarns ==
    (/\ Called("validate_luks")
     /\ cs_config.validate /\ cs_config.hostonly
     /\ HeaderUnreadable(CalledVolume)) =>
        cs_call.err # Err("ValidationError", "Unable to read LUKS header")

\* ------------------------------------------- the order of the attempts
\* The shell is in the loop without keys of the volume.
InFallback == FallbackLines(script) # {} /\ sh_loop.start > FallbackBegin

\* A key file is configured for the loop being run.
KeyFileConfigured == TheVolume.key_file /\ ~InFallback

Tried == sh_loop.tried

\* C25: in an iteration of the unlock loop the open methods are tried by
\* preference: key data when /run/vars/key_data exists; else plymouth when
\* its module is included; else the key file when one is configured, else
\* the bare open. A method is attempted only when key data was not there
\* and every method before it failed, and a success ends the loop.
C25_AttemptsByPreference ==
    Generated =>
        /\ \A k \in DOMAIN Tried :
            /\ Tried[k].method = "open_key_data" <=> Tried[k].key_data
            /\ Tried[k].method = "open_key_data" => k = 1
            /\ Tried[k].method = "open_plymouth" =>
                    crypt.settings.plymouth /\ k = 1
            /\ Tried[k].method \in {"open_key_file", "open_interactive"} =>
                    /\ Tried[k].method = "open_key_file" <=> KeyFileConfigured
                    /\ IF crypt.settings.plymouth
                       THEN k = 2 /\ Tried[1].method = "open_plymouth"
                       ELSE k = 1
            /\ \A j \in 1..(k - 1) : ~Tried[j].ok
            /\ Tried[k].ok => sh_loop.opened
        /\ ~sh_loop.after_success
        /\ (Running /\ Current.op = "msg" /\ Current.arg = "failed_open") =>
                /\ Tried # <<>>
                /\ \A k \in DOMAIN Tried : ~Tried[k].ok

\* Plymouth failed to open the volume and the key file opened it.
C25_Witness ==
    /\ Generated /\ crypt.settings.plymouth
    /\ Len(Tried) = 2
    /\ Tried[1].method = "open_plymouth" /\ ~Tried[1].ok
    /\ Tried[2].method = "open_key_file" /\ Tried[2].ok

\* ------------------------------------------- a second configuration
\* The entry that was stored under the name before the call.
Replaced == cs_call.name \in StoreNames(cs_call.cryptsetup)
OldVolume == StoreGet(cs_call.cryptsetup, cs_call.name)

\* C26: a second configuration processed for a mapped_name is merged into
\* the stored entry, new keys winning: the stored result has every key of
\* the new configuration with the new value (key_command,
\* plymouth_key_command and reset_command given with a key type in effect
\* too) and every key of the old entry alone with its old value.
C26_NewKeysWin ==
    (Stored /\ Replaced) =>
        /\ \A k \in DOMAIN cs_call.input :
              k \in DOMAIN StoredVolume /\ StoredVolume[k] = cs_call.input[k]
        /\ \A k \in DOMAIN OldVolume \ DOMAIN cs_call.input :
              k \in DOMAIN StoredVolume /\ StoredVolume[k] = OldVolume[k]

\* ------------------------------------------- key data after the loop
\* C27: when control has left the unlock loop of a volume, by break or
\* with the retries used up, and however the key command ended,
\* /run/vars/key_data does not exist; the loop without keys of a try_nokey
\* volume makes no open attempt with key data.
C27_NoKeyDataLeft ==
    Generated =>
        /\ ~InBody(sh_pc) => ~sh_key_data
        /\ InFallback => \A k \in DOMAIN Tried : Tried[k].method # "open_key_data"

\* C28: crypt_init makes the block that tries again without keys only for
\* a volume whose try_nokey is true and that has a key_file; a volume with
\* try_nokey = false gets one loop and no such block.
C28_FallbackOnlyWhenTrue ==
    Generated =>
        /\ FallbackLines(script) # {} =>
                TheVolume.try_nokey = "true" /\ TheVolume.key_file
        /\ TheVolume.try_nokey = "false" =>
                Cardinality(ForLines(script)) = 1 /\ FallbackLines(script) = {}

\* ------------------------------------------- how the script ends
\* Every command and prompt of the script returns: the shell goes on as
\* long as there is a line to run.
SpecCryptFair == SpecCrypt /\ WF_vars(CryptNext)

Ended == sh_status \in {"finished", "returned", "rd_fail"}

\* The script ran to its end: the volume is open and the last line, the
\* message of success, was run.
OpenedWithSuccess ==
    /\ sh_status = "finished"
    /\ 1 \in sh_open
    /\ script[Len(script)] = Msg("success", 1)

\* rd_fail was called with the name of the volume.
FailedNamed ==
    /\ sh_status = "rd_fail"
    /\ Current.op = "rd_fail" /\ Current.vol = 1

\* The volume was open at the start: the warning, then return, and no
\* loop was run.
AlreadyOpen ==
    /\ sh_status = "returned"
    /\ 1 \in sh_open
    /\ script[sh_pc - 1] = Msg("already_open", 1)
    /\ sh_loop = NoLoop

\* C29 as claimed: the script of a volume ends in exactly one of two ways,
\* the volume open and the message of success shown, or rd_fail called
\* with the name of the volume.
C29_AsClaimed ==
    (Generated /\ Ended) =>
        /\ OpenedWithSuccess \/ FailedNamed
        /\ ~(OpenedWithSuccess /\ FailedNamed)

\* C29: every run of the script of a volume ends, for every retries >= 1
\* and however the key commands and the open attempts go, in exactly one
\* of three ways: the volume open and the message of success shown;
\* rd_fail called with the name of the volume, which is closed; or, for a
\* volume that was open at the start, return after the warning, no loop
\* run and no message of success.
C29_Terminates ==
    /\ [](( Generated /\ Ended) =>
            /\ OpenedWithSuccess \/ FailedNamed \/ AlreadyOpen
            /\ FailedNamed => 1 \notin sh_open
            /\ Cardinality({ b \in {OpenedWithSuccess, FailedNamed, AlreadyOpen} : b })
                    = 1)
    /\ [](Generated => <>Ended)

\* The first iteration failed, the second one opened the volume and the
\* script ran to its end.
C29_Witness ==
    /\ Generated /\ OpenedWithSuccess
    /\ sh_loop.iters = 2 /\ sh_loop.opened

\* ------------------------------------------- cycling old output files
\* generator_helpers.py, _rotate_old. A file name is the sequence of its
\* suffixes; the files are a function from the names to what they hold,
\* NoFile for a name that is not a file.
MaxOldCount == 2

NoFile == 0

\* Path.with_suffix: the last suffix is replaced, a name without one gets
\* the new suffix.
with_suffix(file_name, suffix) ==
    IF file_name = <<>> THEN suffix
    ELSE SubSeq(file_name, 1, Len(file_name) - 1) \o suffix

\* lines 231-232.
old_suffix(sequence) ==
    IF sequence = 0 THEN <<"old">> ELSE <<"old", ToString(sequence)>>

\* The file names a call can be made on.
OutFiles == {<<>>, <<"cpio">>}

RECURSIVE TargetOf(_, _)
TargetOf(file_name, sequence) ==
    with_suffix(IF sequence = 0 THEN file_name ELSE TargetOf(file_name, sequence - 1),
                old_suffix(sequence))

\* The names the calls look at.
RotatedNames ==
    OutFiles \cup { TargetOf(f, k) : f \in OutFiles, k \in 0..MaxOldCount }

is_file(fs, file_name) == fs[file_name] # NoFile

unlink(fs, file_name) == [fs EXCEPT ![file_name] = NoFile]

\* Path.rename: a target that exists is replaced.
rename(fs, file_name, target_file) ==
    [fs EXCEPT ![target_file] = fs[file_name], ![file_name] = NoFile]

RotateResult(fs, logged, err) == [fs |-> fs, logged |-> logged, err |-> err]

\* lines 209-252.
RECURSIVE _rotate_old(_, _, _, _)
_rotate_old(self, fs, file_name, sequence) ==
    IF ~is_file(fs, file_name)
    THEN RotateResult(fs, <<"File does not exist">>, CsOk)
    ELSE IF self.old_count = 0
    THEN IF self.clean
         THEN RotateResult(unlink(fs, file_name), <<"Deleting file">>, CsOk)
         ELSE RotateResult(fs, <<>>,
                Err("RuntimeError", "Unable to cycle file, as cycle count is not set and clean is disabled"))
    ELSE The({
        IF is_file(fs, target_file)
        THEN IF sequence >= self.old_count
             THEN IF self.clean
                  THEN RotateResult(rename(unlink(fs, target_file), file_name, target_file),
                                    <<"Deleting old file", "Cycling file">>, CsOk)
                  ELSE RotateResult(fs, <<"Cycle limit reached">>, CsOk)
             ELSE The({
                    IF inner.err # CsOk THEN inner
                    ELSE RotateResult(rename(inner.fs, file_name, target_file),
                                      inner.logged \o <<"Cycling file">>, CsOk)
                    : inner \in {_rotate_old(self, fs, target_file, sequence + 1)} })
        ELSE RotateResult(rename(fs, file_name, target_file), <<"Cycling file">>, CsOk)
        : target_file \in {with_suffix(file_name, old_suffix(sequence))} })

\* Any of the names is a file at the start, each one with its own content.
FileContent(file_name) ==
    IF file_name = <<"cpio">> THEN 1 ELSE Len(file_name) + 2

Filesystems ==
    { [n \in RotatedNames |-> IF n \in present THEN FileContent(n) ELSE NoFile]
        : present \in SUBSET RotatedNames }

NoRotation ==
    [op |-> "none", file_name |-> <<>>, before |-> [n \in RotatedNames |-> NoFile],
     logged |-> <<>>, err |-> CsOk]

RotateInit ==
    /\ GenIdle /\ FuncIdle /\ ShIdle
    /\ cs_config \in [clean : BOOLEAN, old_count : 0..MaxOldCount]
    /\ cs_host \in Filesystems
    /\ cryptsetup = <<>>
    /\ cryptsetup_key_types = EmptyDict
    /\ exports = EmptyDict
    /\ cs_call = NoRotation
    /\ cs_calls = 0

\* A call of _rotate_old on an output file, sequence at its default.
RotateOld(file_name) ==
    /\ cs_calls < MaxCsCalls
    /\ \E r \in {_rotate_old(cs_config, cs_host, file_name, 0)} :
        /\ cs_host' = r.fs
        /\ cs_call' = [op |-> "_rotate_old", file_name |-> file_name, before |-> cs_host,
                       logged |-> r.logged, err |-> r.err]
    /\ cs_calls' = cs_calls + 1
    /\ UNCHANGED <<cs_config, cryptsetup, cryptsetup_key_types, exports>>
    /\ UNCHANGED <<genVars, funcVars, shVars>>

RotateNext == \E file_name \in OutFiles : RotateOld(file_name)

SpecRotate == RotateInit /\ [][RotateNext]_vars

\* C30: with clean off and old_count >= 1, after a call of _rotate_old
\* that returned, what every file held before the call is still held by
\* some file.
C30_NothingLost ==
    (/\ cs_call.op = "_rotate_old" /\ cs_call.err = CsOk
     /\ ~cs_config.clean /\ cs_config.old_count >= 1) =>
        \A n \in RotatedNames :
            is_file(cs_call.before, n) =>
                \E m \in RotatedNames : cs_host[m] = cs_call.before[n]

====
